---------------------------- MODULE Spec2Model ----------------------------
(***************************************************************************)
(* Model of the retrieval -> rerank -> quality -> context-assembly core of *)
(* the semantic-search application (src/lib/similarity.ts, the reranker    *)
(* module src/unnamed/part_005, src/lib/rag.ts) and of the chunk metadata  *)
(* assigned at ingestion (processDocument, src/lib/deepseek.ts).           *)
(*                                                                         *)
(* Representation.                                                         *)
(*  - A JavaScript string is a TLA+ string; Len, \o and SubSeq act on it   *)
(*    character by character.  TLA+ strings are ASCII, so the Cyrillic     *)
(*    letters of the literals of the source are written as Latin letters,  *)
(*    one letter for one letter (the lengths are those of the source).     *)
(*  - A similarity score, a rerank score, a threshold and a confidence are *)
(*    integers counting millionths: 0.7 is 700000, 1.0 is 1000000.  A      *)
(*    vector component counts thousandths, so that a dot product counts    *)
(*    millionths.  Arithmetic is exact; toFixed rounds the exact value,    *)
(*    half away from zero.                                                 *)
(*  - A function that can throw returns [threw |-> TRUE, ...] or           *)
(*    [threw |-> FALSE, value |-> ...].                                    *)
(*  - The JavaScript value undefined of an optional string is "".          *)
(***************************************************************************)
EXTENDS Integers, Sequences, FiniteSets, TLC

VARIABLES
    items,           \* the corpus handed to findMostSimilar: EmbeddedItem[]
    queryEmbedding,  \* the query vector
    query,           \* the query text
    results,         \* a SearchResult[] handed to the library
    ranked,          \* the RankedResult[] last returned by rerankResults
    call,            \* the library call last made, with its arguments
    ret,             \* what that call returned
    embeddingPipeline,  \* the module-level cache of the embedding model
    constructed,     \* how many times pipeline(...) was called to build a model
    tasks            \* the asynchronous calls in flight, each with its position

\* The state of the asynchronous part of the program.
async == <<embeddingPipeline, constructed, tasks>>

vars == <<items, queryEmbedding, query, results, ranked, call, ret, async>>

\* let embeddingPipeline: any = null
Null == 0

\* No model is loaded and no asynchronous call is in flight.
NoAsync ==
    /\ embeddingPipeline = Null
    /\ constructed = 0
    /\ tasks = <<>>

---------------------------------------------------------------------------
(* Bounds of the model.                                                    *)

MaxItems == 3
MaxTopK == 3
MaxResults == 2

\* The number of generateEmbedding calls in flight.
MaxCalls == 3

---------------------------------------------------------------------------
(* Arithmetic helpers.                                                     *)

Min(a, b) == IF a <= b THEN a ELSE b

Max(a, b) == IF a >= b THEN a ELSE b

Abs(a) == IF a < 0 THEN -a ELSE a

\* Math.max(...xs) / Math.min(...xs) of a non-empty sequence of numbers.
RECURSIVE MathMax(_)
MathMax(xs) ==
    IF Len(xs) = 1 THEN xs[1] ELSE Max(xs[1], MathMax(Tail(xs)))

RECURSIVE MathMin(_)
MathMin(xs) ==
    IF Len(xs) = 1 THEN xs[1] ELSE Min(xs[1], MathMin(Tail(xs)))

\* xs.reduce((a, b) => a + b, 0)
RECURSIVE Sum(_)
Sum(xs) == IF xs = <<>> THEN 0 ELSE xs[1] + Sum(Tail(xs))

\* The integer nearest to num / den (den > 0), a tie going away from zero:
\* the digits Number.prototype.toFixed keeps.
RoundHalfAway(num, den) ==
    IF num >= 0 THEN (2 * num + den) \div (2 * den)
                ELSE -((2 * (-num) + den) \div (2 * den))

\* parseFloat((num / den).toFixed(4)): the quotient rounded to four decimals
toFixed4(num, den) == 100 * RoundHalfAway(num, 100 * den)

\* seq.slice(0, n) for an integer n >= 0
Slice(seq, n) == SubSeq(seq, 1, Min(n, Len(seq)))

\* Array.prototype.sort((a, b) => key(b) - key(a)): a stable sort
\* (ECMAScript 2019) into non-increasing order of the key.  keys[i] is the key
\* of seq[i].  The comparator is positive, and a goes after b, exactly when
\* key(b) > key(a); x is placed after every element already sorted whose key
\* is not smaller than its own.
RECURSIVE InsertDesc(_, _)
InsertDesc(sorted, x) ==
    IF sorted = <<>> THEN <<x>>
    ELSE LET last == sorted[Len(sorted)]
         IN  IF x.key - last.key > 0
             THEN InsertDesc(SubSeq(sorted, 1, Len(sorted) - 1), x) \o <<last>>
             ELSE sorted \o <<x>>

RECURSIVE SortPrefix(_, _, _)
SortPrefix(seq, keys, n) ==
    IF n = 0 THEN <<>>
    ELSE InsertDesc(SortPrefix(seq, keys, n - 1),
                    [key |-> keys[n], elem |-> seq[n]])

SortDesc(seq, keys) ==
    LET sorted == SortPrefix(seq, keys, Len(seq))
    IN  [i \in 1..Len(seq) |-> sorted[i].elem]

---------------------------------------------------------------------------
(* Strings.                                                                *)

Digits == "0123456789"
LowerAlpha == "abcdefghijklmnopqrstuvwxyz"
UpperAlpha == "ABCDEFGHIJKLMNOPQRSTUVWXYZ"

CharAt(s, i) == SubSeq(s, i, i)

CharsOf(s) == {CharAt(s, i) : i \in 1..Len(s)}

DigitSet == CharsOf(Digits)
LowerSet == CharsOf(LowerAlpha)
UpperSet == CharsOf(UpperAlpha)

\* \s of a JavaScript regular expression, and the characters trim() removes
IsSpace(c) == c \in {" ", "\n", "\t", "\r"}

\* \w of a JavaScript regular expression
IsWordChar(c) == c \in LowerSet \cup UpperSet \cup DigitSet \cup {"_"}

LowerChar(c) ==
    IF c \in UpperSet
    THEN CharAt(LowerAlpha, CHOOSE i \in 1..Len(UpperAlpha) : CharAt(UpperAlpha, i) = c)
    ELSE c

\* String.prototype.toLowerCase, over the characters lo..hi of s.
RECURSIVE LowerRange(_, _, _)
LowerRange(s, lo, hi) ==
    IF lo > hi THEN ""
    ELSE IF lo = hi THEN LowerChar(CharAt(s, lo))
         ELSE LET mid == (lo + hi) \div 2
              IN  LowerRange(s, lo, mid) \o LowerRange(s, mid + 1, hi)

toLowerCase(s) == LowerRange(s, 1, Len(s))

\* String.prototype.includes
includes(text, word) ==
    \/ Len(word) = 0
    \/ \E i \in 1..(Len(text) - Len(word) + 1) :
           SubSeq(text, i, i + Len(word) - 1) = word

\* The j-th smallest element of a set of numbers.
NthOf(S, j) == CHOOSE i \in S : Cardinality({k \in S : k < i}) = j - 1

\* The index after the run of white space that starts at i.
RECURSIVE SkipSpace(_, _)
SkipSpace(s, i) ==
    IF i <= Len(s) /\ IsSpace(CharAt(s, i)) THEN SkipSpace(s, i + 1) ELSE i

\* String.prototype.split(/\s+/): the pieces between the maximal runs of
\* white space, with an empty piece first when the string is empty or starts
\* with white space and an empty piece last when it ends with white space.
splitOnSpace(s) ==
    LET n == Len(s)
        IsSp(i) == IsSpace(CharAt(s, i))
        starts == {i \in 1..n : ~IsSp(i) /\ (i = 1 \/ IsSp(i - 1))}
        EndOf(i) == CHOOSE j \in i..n :
                        /\ j = n \/ IsSp(j + 1)
                        /\ \A k \in i..j : ~IsSp(k)
        words == [w \in 1..Cardinality(starts) |->
                     LET i == NthOf(starts, w) IN SubSeq(s, i, EndOf(i))]
    IN  (IF n = 0 \/ IsSp(1) THEN <<"">> ELSE <<>>)
            \o words
            \o (IF n > 0 /\ IsSp(n) THEN <<"">> ELSE <<>>)

\* String.prototype.trim
RECURSIVE TrimStart(_, _)
TrimStart(s, i) ==
    IF i <= Len(s) /\ IsSpace(CharAt(s, i)) THEN TrimStart(s, i + 1) ELSE i

RECURSIVE TrimEnd(_, _)
TrimEnd(s, j) ==
    IF j >= 1 /\ IsSpace(CharAt(s, j)) THEN TrimEnd(s, j - 1) ELSE j

trim(s) == SubSeq(s, TrimStart(s, 1), TrimEnd(s, Len(s)))

\* The decimal digits of a natural number
RECURSIVE NatToString(_)
NatToString(n) ==
    IF n < 10 THEN CharAt(Digits, n + 1)
    ELSE NatToString(n \div 10) \o CharAt(Digits, (n % 10) + 1)

---------------------------------------------------------------------------
(* Ingestion: the chunk records of the index (src/lib/deepseek.ts).        *)

\* Chunk texts as splitTextIntoChunks returns them for two documents.
TextScenario == "PostgreSQL database is used in this project"
TextRelease == "Release 2 of the API"
TextPlain == "Plain notes"
TextLong ==
    "Version 7 notes: lorem ipsum dolor sit amet consectetur adipiscing elit sed"
    \o " do eiusmod tempor incididunt ut labore et dolore magna aliqua ut enim ad"
    \o " minim veniam quis nostrud exercitation ullamco laboris nisi ut aliquip"

Documents ==
    << [filename |-> "a.md", textChunks |-> <<TextScenario, TextRelease>>],
       [filename |-> "b.md", textChunks |-> <<TextLong, TextPlain>>] >>

\* Successive values of uuidv4(): pairwise different.
Uuids == <<"u1", "u2", "u3", "u4", "u5", "u6">>

\* processDocument, given the texts splitTextIntoChunks returned and the
\* number of ids drawn before: position is index + 1.
processDocument(filename, textChunks, drawn) ==
    LET totalChunks == Len(textChunks)
    IN  [index \in 1..Len(textChunks) |->
            [id |-> Uuids[drawn + index],
             text |-> textChunks[index],
             source |-> filename,
             metadata |-> [position |-> (index - 1) + 1,  \* index is 1-based here
                           totalChunks |-> totalChunks]]]

\* processAllDocuments: the chunks of every file, in file order.
RECURSIVE processAllDocuments(_, _)
processAllDocuments(files, n) ==
    IF n = 0 THEN <<>>
    ELSE LET allChunks == processAllDocuments(files, n - 1)
         IN  allChunks \o processDocument(files[n].filename, files[n].textChunks,
                                          Len(allChunks))

Chunks == processAllDocuments(Documents, Len(Documents))

---------------------------------------------------------------------------
(* Similarity Scorer and Retriever (src/lib/similarity.ts).                *)

RECURSIVE DotProduct(_, _, _)
DotProduct(vec1, vec2, i) ==
    IF i > Len(vec1) THEN 0
    ELSE vec1[i] * vec2[i] + DotProduct(vec1, vec2, i + 1)

\* The dot product taken without the test of the lengths, a component that
\* is missing counting as 0.
cosineSimilarityUnchecked(vec1, vec2) ==
    [threw |-> FALSE,
     value |-> DotProduct(SubSeq(vec1, 1, Min(Len(vec1), Len(vec2))),
                          SubSeq(vec2, 1, Min(Len(vec1), Len(vec2))), 1)]

cosineSimilarity(vec1, vec2) ==
    IF Len(vec1) # Len(vec2)
    THEN [threw |-> TRUE,
          error |-> "Vektory doljny imetq odinakovuu razmernostq"]
    ELSE [threw |-> FALSE, value |-> DotProduct(vec1, vec2, 1)]

SearchResultOf(item, score) ==
    [id |-> item.id, text |-> item.text, source |-> item.source,
     score |-> score, metadata |-> item.metadata]

Scores(rs) == [i \in 1..Len(rs) |-> rs[i].score]

findMostSimilarUnsorted(qe, its, topK) ==
    LET sims == [i \in 1..Len(its) |-> cosineSimilarity(qe, its[i].embedding)]
    IN  IF \E i \in 1..Len(its) : sims[i].threw
        THEN sims[CHOOSE i \in 1..Len(its) :
                     sims[i].threw /\ \A j \in 1..(i - 1) : ~sims[j].threw]
        ELSE [threw |-> FALSE,
              value |-> Slice([i \in 1..Len(its) |->
                                  SearchResultOf(its[i], sims[i].value)], topK)]

\* The retriever with a sort that puts the later of two equal scores first.
findMostSimilarLaterTieFirst(qe, its, topK) ==
    LET sims == [i \in 1..Len(its) |-> cosineSimilarity(qe, its[i].embedding)]
    IN  IF \E i \in 1..Len(its) : sims[i].threw
        THEN sims[CHOOSE i \in 1..Len(its) :
                     sims[i].threw /\ \A j \in 1..(i - 1) : ~sims[j].threw]
        ELSE LET n == Len(its)
                 backwards == [i \in 1..n |->
                                  SearchResultOf(its[n + 1 - i], sims[n + 1 - i].value)]
             IN  [threw |-> FALSE,
                  value |-> Slice(SortDesc(backwards, Scores(backwards)), topK)]

\* The map throws at the first item whose dimension differs; otherwise the
\* scored items are sorted by descending score and cut to topK.
findMostSimilar(qe, its, topK) ==
    LET sims == [i \in 1..Len(its) |-> cosineSimilarity(qe, its[i].embedding)]
    IN  IF \E i \in 1..Len(its) : sims[i].threw
        THEN sims[CHOOSE i \in 1..Len(its) :
                     sims[i].threw /\ \A j \in 1..(i - 1) : ~sims[j].threw]
        ELSE LET scored == [i \in 1..Len(its) |->
                               SearchResultOf(its[i], sims[i].value)]
                 sorted == SortDesc(scored, Scores(scored))
             IN  [threw |-> FALSE, value |-> Slice(sorted, topK)]

filterByMinScoreStrict(rs, minScore) ==
    LET Keep(result) == result.score > minScore
    IN  SelectSeq(rs, Keep)

filterByMinScore(rs, minScore) ==
    LET Keep(result) == result.score >= minScore
    IN  SelectSeq(rs, Keep)

\* The statistics without the case of the empty list: the average of no
\* scores is the quotient 0 / 0.
getSearchStatsWithoutEmptyCase(rs) ==
    [count |-> Len(rs),
     avgScore |-> [num |-> Sum(Scores(rs)), den |-> Len(rs)],
     maxScore |-> IF Len(rs) = 0 THEN 0 ELSE MathMax(Scores(rs)),
     minScore |-> IF Len(rs) = 0 THEN 0 ELSE MathMin(Scores(rs))]

\* avgScore is the exact quotient sum / count, kept as the pair of the two.
getSearchStats(rs) ==
    IF Len(rs) = 0
    THEN [count |-> 0, avgScore |-> [num |-> 0, den |-> 1],
          maxScore |-> 0, minScore |-> 0]
    ELSE LET scores == Scores(rs)
             sum == Sum(scores)
         IN  [count |-> Len(rs),
              avgScore |-> [num |-> sum, den |-> Len(rs)],
              maxScore |-> MathMax(scores),
              minScore |-> MathMin(scores)]

---------------------------------------------------------------------------
(* Quality Evaluator (src/lib/rag.ts).                                     *)

HighMaxScore == 700000
HighAvgScore == 500000
MediumMaxScore == 500000
MediumAvgScore == 300000
HighConfidence == 900000
MediumConfidence == 600000
LowConfidence == 300000

\* The tier decided on avgScore and maxScore rounded to four decimals, as the
\* returned record reports them, instead of on the values computed.
evaluateContextQualityRounded(rs) ==
    IF Len(rs) = 0
    THEN [quality |-> "none", confidence |-> 0,
          recommendation |->
              "Relevantnoy informacii ne naydeno. Modelq otvetit iz obsih znaniy."]
    ELSE LET sum == Sum(Scores(rs))
             n == Len(rs)
             maxScore == toFixed4(MathMax(Scores(rs)), 1)
             avgScore == toFixed4(sum, n)
             tier ==
                 IF maxScore > HighMaxScore /\ avgScore > HighAvgScore
                 THEN [quality |-> "high", confidence |-> HighConfidence]
                 ELSE IF maxScore > MediumMaxScore /\ avgScore > MediumAvgScore
                      THEN [quality |-> "medium", confidence |-> MediumConfidence]
                      ELSE [quality |-> "low", confidence |-> LowConfidence]
         IN  [quality |-> tier.quality, confidence |-> tier.confidence,
              recommendation |-> "", avgScore |-> avgScore,
              maxScore |-> maxScore, totalChunks |-> n]

\* The high tier tested with maxScore < 0.7 in place of maxScore > 0.7.
evaluateContextQualityMaxBelow(rs) ==
    IF Len(rs) = 0
    THEN [quality |-> "none", confidence |-> 0, recommendation |-> ""]
    ELSE LET sum == Sum(Scores(rs))
             n == Len(rs)
             maxScore == MathMax(Scores(rs))
             tier ==
                 IF maxScore < HighMaxScore /\ sum > HighAvgScore * n
                 THEN [quality |-> "high", confidence |-> HighConfidence]
                 ELSE IF maxScore > MediumMaxScore /\ sum > MediumAvgScore * n
                      THEN [quality |-> "medium", confidence |-> MediumConfidence]
                      ELSE [quality |-> "low", confidence |-> LowConfidence]
         IN  [quality |-> tier.quality, confidence |-> tier.confidence,
              recommendation |-> "", avgScore |-> toFixed4(sum, n),
              maxScore |-> toFixed4(maxScore, 1), totalChunks |-> n]

\* The assessment taken from rerank_score where a result has one.
evaluateContextQualityOfRerankScore(rs) ==
    IF Len(rs) = 0
    THEN [quality |-> "none", confidence |-> 0,
          recommendation |->
              "Relevantnoy informacii ne naydeno. Modelq otvetit iz obsih znaniy."]
    ELSE LET scores == [i \in 1..Len(rs) |->
                           IF "rerank_score" \in DOMAIN rs[i]
                           THEN rs[i].rerank_score ELSE rs[i].score]
             sum == Sum(scores)
             n == Len(rs)
             maxScore == MathMax(scores)
             tier ==
                 IF maxScore > HighMaxScore /\ sum > HighAvgScore * n
                 THEN [quality |-> "high", confidence |-> HighConfidence,
                       recommendation |->
                           "Naydena vysokorelevantnaa informacia. Otvet budet tocnym."]
                 ELSE IF maxScore > MediumMaxScore /\ sum > MediumAvgScore * n
                      THEN [quality |-> "medium", confidence |-> MediumConfidence,
                            recommendation |->
                                "Naydena casticno relevantnaa informacia. Otvet mojet bytq nepolnym."]
                      ELSE [quality |-> "low", confidence |-> LowConfidence,
                            recommendation |->
                                "Relevantnostq nizkaa. Rekomenduetsa rejim bez RAG ili utocnite zapros."]
         IN  [quality |-> tier.quality,
              confidence |-> tier.confidence,
              recommendation |-> tier.recommendation,
              avgScore |-> toFixed4(sum, n),
              maxScore |-> toFixed4(maxScore, 1),
              totalChunks |-> n]

\* avgScore = sum / n is compared exactly: sum / n > t iff sum > t * n.
evaluateContextQuality(rs) ==
    IF Len(rs) = 0
    THEN [quality |-> "none", confidence |-> 0,
          recommendation |->
              "Relevantnoy informacii ne naydeno. Modelq otvetit iz obsih znaniy."]
    ELSE LET sum == Sum(Scores(rs))
             n == Len(rs)
             maxScore == MathMax(Scores(rs))
             tier ==
                 IF maxScore > HighMaxScore /\ sum > HighAvgScore * n
                 THEN [quality |-> "high", confidence |-> HighConfidence,
                       recommendation |->
                           "Naydena vysokorelevantnaa informacia. Otvet budet tocnym."]
                 ELSE IF maxScore > MediumMaxScore /\ sum > MediumAvgScore * n
                      THEN [quality |-> "medium", confidence |-> MediumConfidence,
                            recommendation |->
                                "Naydena casticno relevantnaa informacia. Otvet mojet bytq nepolnym."]
                      ELSE [quality |-> "low", confidence |-> LowConfidence,
                            recommendation |->
                                "Relevantnostq nizkaa. Rekomenduetsa rejim bez RAG ili utocnite zapros."]
         IN  [quality |-> tier.quality,
              confidence |-> tier.confidence,
              recommendation |-> tier.recommendation,
              avgScore |-> toFixed4(sum, n),
              maxScore |-> toFixed4(maxScore, 1),
              totalChunks |-> n]

---------------------------------------------------------------------------
(* The calls a caller of the library makes.  Each action is one call: it   *)
(* records the call and its arguments in call and what it returned in ret. *)

Idle == [fn |-> "idle"]

NoReturn == [threw |-> FALSE, value |-> <<>>]

Returned(v) == [threw |-> FALSE, value |-> v]

\* Vectors an embedding model may have produced: components in thousandths.
\* The last one has another dimension.
Embeddings ==
    {<<1000, 0>>, <<600, 800>>, <<0, 1000>>, <<-1000, 0>>, <<1000, 0, 0>>}

QueryEmbeddings == {<<1000, 0>>, <<800, 600>>, <<0, 1000>>}

\* Thresholds a caller may pass as minScore / min_rerank_score.
Thresholds == {0, 300000, 500000, 700000}

\* An index: the first n chunks of the ingested documents, each with the
\* embedding the model gave it.
Corpora ==
    UNION { { [i \in 1..n |->
                  [id |-> Chunks[i].id, text |-> Chunks[i].text,
                   source |-> Chunks[i].source, embedding |-> e[i],
                   metadata |-> Chunks[i].metadata]] :
              e \in [1..n -> Embeddings] } :
            n \in 0..Min(MaxItems, Len(Chunks)) }

FindMostSimilar ==
    /\ call.fn = "idle"
    /\ \E topK \in 0..MaxTopK :
          /\ call' = [fn |-> "findMostSimilar", topK |-> topK]
          /\ ret' = findMostSimilar(queryEmbedding, items, topK)
    /\ results' = IF ret'.threw THEN results ELSE ret'.value
    /\ UNCHANGED <<async, items, queryEmbedding, query, ranked>>

CosineSimilarity ==
    /\ call.fn = "idle"
    /\ \E i \in 1..Len(items) :
          /\ call' = [fn |-> "cosineSimilarity", index |-> i]
          /\ ret' = cosineSimilarity(queryEmbedding, items[i].embedding)
    /\ UNCHANGED <<async, items, queryEmbedding, query, results, ranked>>

FilterByMinScore ==
    /\ \/ call.fn = "idle"
       \/ call.fn = "findMostSimilar" /\ ~ret.threw
    /\ \E minScore \in Thresholds :
          /\ call' = [fn |-> "filterByMinScore", minScore |-> minScore]
          /\ ret' = Returned(filterByMinScore(results, minScore))
    /\ UNCHANGED <<async, items, queryEmbedding, query, results, ranked>>

GetSearchStats ==
    /\ \/ call.fn = "idle"
       \/ call.fn = "findMostSimilar" /\ ~ret.threw
    /\ call' = [fn |-> "getSearchStats"]
    /\ ret' = Returned(getSearchStats(results))
    /\ UNCHANGED <<async, items, queryEmbedding, query, results, ranked>>

EvaluateContextQuality ==
    /\ \/ call.fn = "idle"
       \/ call.fn = "findMostSimilar" /\ ~ret.threw
    /\ call' = [fn |-> "evaluateContextQuality"]
    /\ ret' = Returned(evaluateContextQuality(results))
    /\ UNCHANGED <<async, items, queryEmbedding, query, results, ranked>>

---------------------------------------------------------------------------
(* Retriever: a query vector against an index.                             *)

InitRetriever ==
    /\ items \in Corpora
    /\ queryEmbedding \in QueryEmbeddings
    /\ query = ""
    /\ results = <<>>
    /\ ranked = <<>>
    /\ call = Idle
    /\ ret = NoReturn
    /\ NoAsync

NextRetriever ==
    \/ CosineSimilarity
    \/ FindMostSimilar
    \/ FilterByMinScore
    \/ GetSearchStats
    \/ EvaluateContextQuality

SpecRetriever == InitRetriever /\ [][NextRetriever]_vars

DimensionsMatch ==
    \A i \in 1..Len(items) : Len(items[i].embedding) = Len(queryEmbedding)

\* C2: with matching dimensions and k >= 0, findMostSimilar returns exactly
\* min(k, |corpus|) results, and the score at each position is greater than
\* or equal to the score at the next position.
C2_TopKLengthAndOrder ==
    (call.fn = "findMostSimilar" /\ DimensionsMatch) =>
        /\ ~ret.threw
        /\ Len(ret.value) = Min(call.topK, Len(items))
        /\ \A i \in 1..(Len(ret.value) - 1) :
               ret.value[i].score >= ret.value[i + 1].score

\* C2 witness: a corpus of three whose first item is not the best match, cut
\* to the best two.
C2_Witness ==
    /\ call.fn = "findMostSimilar"
    /\ DimensionsMatch
    /\ Len(items) = 3
    /\ call.topK = 2
    /\ Len(ret.value) = 2
    /\ ret.value[1].id # items[1].id
    /\ ret.value[1].score > ret.value[2].score

\* The position in the index of the item with this id.
CorpusIndex(id) == CHOOSE i \in 1..Len(items) : items[i].id = id

\* The similarity of the item at this position of the index to the query.
CorpusScore(i) == cosineSimilarity(queryEmbedding, items[i].embedding).value

\* C11: two items of the index with exactly equal scores come out of
\* findMostSimilar in their index order, and when the cut to topK keeps only
\* some of the items with one score, it keeps the ones earlier in the index.
C11_TiesKeepCorpusOrder ==
    (call.fn = "findMostSimilar" /\ ~ret.threw) =>
        /\ \A i, j \in 1..Len(ret.value) :
               (i < j /\ ret.value[i].score = ret.value[j].score)
                   => CorpusIndex(ret.value[i].id) < CorpusIndex(ret.value[j].id)
        /\ \A j \in 1..Len(ret.value), a \in 1..Len(items) :
               (CorpusScore(a) = ret.value[j].score
                    /\ a < CorpusIndex(ret.value[j].id))
                   => \E i \in 1..Len(ret.value) : ret.value[i].id = items[a].id

\* C11 witness: three items with one score, of which the cut keeps the first
\* two in index order.
C11_Witness ==
    /\ call.fn = "findMostSimilar"
    /\ ~ret.threw
    /\ Len(items) = 3
    /\ call.topK = 2
    /\ CorpusScore(1) = CorpusScore(2)
    /\ CorpusScore(2) = CorpusScore(3)
    /\ Len(ret.value) = 2
    /\ ret.value[1].id = items[1].id
    /\ ret.value[2].id = items[2].id

\* The sum of the products of the components of two vectors of one length.
ProductSum(v, w) == Sum([k \in 1..Len(v) |-> v[k] * w[k]])

\* C17: cosineSimilarity raises its error whenever the two vectors differ in
\* length and otherwise returns their dot product; findMostSimilar on an index
\* holding an item whose embedding differs in length from the query raises
\* that error, returns no list and leaves no partial result.
C17_DimensionMismatchRaises ==
    /\ call.fn = "cosineSimilarity" =>
           LET v == items[call.index].embedding
           IN  IF Len(v) # Len(queryEmbedding)
               THEN /\ ret.threw
                    /\ ret.error = "Vektory doljny imetq odinakovuu razmernostq"
               ELSE /\ ~ret.threw
                    /\ ret.value = ProductSum(queryEmbedding, v)
    /\ call.fn = "findMostSimilar" =>
           IF DimensionsMatch
           THEN /\ ~ret.threw
                /\ \A i \in 1..Len(ret.value) :
                       ret.value[i].score
                           = ProductSum(queryEmbedding,
                                        items[CorpusIndex(ret.value[i].id)].embedding)
           ELSE /\ ret.threw
                /\ ret.error = "Vektory doljny imetq odinakovuu razmernostq"
                /\ "value" \notin DOMAIN ret
                /\ results = <<>>

\* C17 witness: an index of three whose first two items have the dimension of
\* the query and whose third has not; findMostSimilar raises.
C17_Witness ==
    /\ call.fn = "findMostSimilar"
    /\ Len(items) = 3
    /\ Len(items[1].embedding) = Len(queryEmbedding)
    /\ Len(items[2].embedding) = Len(queryEmbedding)
    /\ Len(items[3].embedding) # Len(queryEmbedding)
    /\ call.topK = 2
    /\ ret.threw

\* C18: on the empty index findMostSimilar returns the empty list without
\* raising, for any query vector and topK; getSearchStats of the empty list is
\* count, avgScore, maxScore and minScore all 0; evaluateContextQuality of the
\* empty list is quality none with confidence 0.
C18_EmptyInputs ==
    /\ (call.fn = "findMostSimilar" /\ Len(items) = 0) =>
           ~ret.threw /\ ret.value = <<>>
    /\ (call.fn = "getSearchStats" /\ Len(results) = 0) =>
           /\ ~ret.threw
           /\ ret.value.count = 0
           /\ ret.value.avgScore.num = 0 /\ ret.value.avgScore.den # 0
           /\ ret.value.maxScore = 0
           /\ ret.value.minScore = 0
    /\ (call.fn = "evaluateContextQuality" /\ Len(results) = 0) =>
           /\ ~ret.threw
           /\ ret.value.quality = "none"
           /\ ret.value.confidence = 0

\* C18 witness: the statistics of the empty list that findMostSimilar returned
\* for the empty index.
C18_Witness ==
    /\ call.fn = "getSearchStats"
    /\ Len(items) = 0
    /\ results = <<>>
    /\ ret.value.count = 0

---------------------------------------------------------------------------
(* Quality Evaluator: lists of scored results.                             *)

\* Similarity scores of the lists handed to the evaluator and to the filter:
\* values on, next to and between the thresholds.
QualityScores == {300000, 300100, 500000, 600000, 700000, 900000}

MaxScored == 3

\* The first n chunks of the index, in index order, with any scores.
ScoredLists ==
    UNION { { [i \in 1..n |-> SearchResultOf(Chunks[i], s[i])] :
              s \in [1..n -> QualityScores] } :
            n \in 0..Min(MaxScored, Len(Chunks)) }

InitQuality ==
    /\ items = <<>>
    /\ queryEmbedding = <<>>
    /\ query = ""
    /\ results \in ScoredLists
    /\ ranked = <<>>
    /\ call = Idle
    /\ ret = NoReturn
    /\ NoAsync

NextQuality ==
    \/ EvaluateContextQuality
    \/ FilterByMinScore
    \/ GetSearchStats

SpecQuality == InitQuality /\ [][NextQuality]_vars

TierRank(quality) ==
    CASE quality = "none" -> 0
      [] quality = "low" -> 1
      [] quality = "medium" -> 2
      [] quality = "high" -> 3

\* C6: for a non-empty list the tier is decided by the unrounded maxScore and
\* avgScore = sum / n with strict comparisons: high / 0.9 when maxScore > 0.7
\* and avgScore > 0.5, else medium / 0.6 when maxScore > 0.5 and
\* avgScore > 0.3, else low / 0.3.
C6_TierThresholds ==
    (call.fn = "evaluateContextQuality" /\ Len(results) > 0) =>
        LET n == Len(results)
            sum == Sum(Scores(results))
            maxScore == MathMax(Scores(results))
            isHigh == maxScore > 700000 /\ sum > 500000 * n
            isMedium == ~isHigh /\ maxScore > 500000 /\ sum > 300000 * n
        IN  /\ isHigh =>
                   ret.value.quality = "high" /\ ret.value.confidence = 900000
            /\ isMedium =>
                   ret.value.quality = "medium" /\ ret.value.confidence = 600000
            /\ (~isHigh /\ ~isMedium) =>
                   ret.value.quality = "low" /\ ret.value.confidence = 300000

\* C6 witness: a list whose average is above 0.5 and whose maxScore is exactly
\* 0.7 is medium, not high.
C6_Witness ==
    /\ call.fn = "evaluateContextQuality"
    /\ Len(results) = 3
    /\ MathMax(Scores(results)) = 700000
    /\ Sum(Scores(results)) > 500000 * 3
    /\ ret.value.quality = "medium"

\* C7: of two non-empty lists with the same avgScore, the one with the larger
\* maxScore never gets the lower tier; and the tier is none exactly when the
\* list is empty.
C7_MonotoneInMaxScore ==
    call.fn = "evaluateContextQuality" =>
        /\ (ret.value.quality = "none") <=> (Len(results) = 0)
        /\ \A other \in ScoredLists :
               (/\ Len(results) > 0
                /\ Len(other) > 0
                /\ Sum(Scores(results)) * Len(other)
                       = Sum(Scores(other)) * Len(results)
                /\ MathMax(Scores(results)) <= MathMax(Scores(other)))
               => TierRank(ret.value.quality)
                      <= TierRank(evaluateContextQuality(other).quality)

\* C7 witness: two lists of different length with the same average and
\* different maxScore that get different tiers; and the empty list.
C7_Witness ==
    /\ call.fn = "evaluateContextQuality"
    /\ Len(results) > 0
    /\ \E other \in ScoredLists :
           /\ Len(other) > 0
           /\ Len(other) # Len(results)
           /\ Sum(Scores(results)) * Len(other) = Sum(Scores(other)) * Len(results)
           /\ MathMax(Scores(results)) < MathMax(Scores(other))
           /\ TierRank(ret.value.quality)
                  < TierRank(evaluateContextQuality(other).quality)

\* The indices of the input whose score reaches the threshold.
KeptIndices(rs, threshold) == {i \in 1..Len(rs) : rs[i].score >= threshold}

\* C8: filterByMinScore returns the subsequence of its input made of exactly
\* the items with score >= threshold, in their input order.
C8_FilterIsSubsequence ==
    call.fn = "filterByMinScore" =>
        LET kept == KeptIndices(results, call.minScore)
        IN  /\ Len(ret.value) = Cardinality(kept)
            /\ \A j \in 1..Len(ret.value) :
                   ret.value[j] = results[NthOf(kept, j)]
            /\ \A j \in 1..Len(ret.value) : ret.value[j].score >= call.minScore

\* C8 witness: a list of three from which the middle item is removed, one
\* retained item scoring exactly the threshold.
C8_Witness ==
    /\ call.fn = "filterByMinScore"
    /\ Len(results) = 3
    /\ Len(ret.value) = 2
    /\ ret.value[1] = results[1]
    /\ ret.value[2] = results[3]
    /\ results[3].score = call.minScore

---------------------------------------------------------------------------
(* Reranker (src/unnamed/part_005).                                        *)

\* The stop words of extractKeywords.  Its Cyrillic stop words are left out:
\* no text of the model holds a Cyrillic letter.
StopWords ==
    {"the", "is", "at", "which", "on", "a", "an", "as", "are", "was", "were"}

\* .replace(/[^\wа-яё\s]/gi, ' '): every character that is
\* neither a word character nor white space becomes a space.
RECURSIVE StripPunctuation(_, _, _)
StripPunctuation(s, lo, hi) ==
    IF lo > hi THEN ""
    ELSE IF lo = hi
         THEN LET c == CharAt(s, lo)
              IN  IF IsWordChar(c) \/ IsSpace(c) THEN c ELSE " "
         ELSE LET mid == (lo + hi) \div 2
              IN  StripPunctuation(s, lo, mid) \o StripPunctuation(s, mid + 1, hi)

\* [...new Set(words)]: the first occurrence of every word, in order.
Unique(words) ==
    LET firsts == {n \in 1..Len(words) :
                      \A k \in 1..(n - 1) : words[k] # words[n]}
    IN  [w \in 1..Cardinality(firsts) |-> words[NthOf(firsts, w)]]

replacePunctuation(s) == StripPunctuation(s, 1, Len(s))

\* The keywords with the shortest kept word of five letters.
extractKeywordsLongerThanFour(text) ==
    LET IsKeyword(word) == Len(word) > 4 /\ word \notin StopWords
    IN  Unique(SelectSeq(splitOnSpace(replacePunctuation(toLowerCase(text))),
                         IsKeyword))

extractKeywords(text) ==
    LET IsKeyword(word) == Len(word) > 2 /\ word \notin StopWords
    IN  Unique(SelectSeq(splitOnSpace(replacePunctuation(toLowerCase(text))),
                         IsKeyword))

RerankScores(rs) == [i \in 1..Len(rs) |-> rs[i].rerank_score]

\* .sort((a, b) => b.rerank_score - a.rerank_score)
sortByRerankScore(rs) == SortDesc(rs, RerankScores(rs))

\* { ...result, rerank_score, rerank_method, original_rank, boost_reason }
RankedResultOf(result, rerank_score, rerank_method, original_rank, boost_reason) ==
    [id |-> result.id, text |-> result.text, source |-> result.source,
     score |-> result.score, metadata |-> result.metadata,
     rerank_score |-> rerank_score, rerank_method |-> rerank_method,
     original_rank |-> original_rank, boost_reason |-> boost_reason]

\* queryKeywords.filter(kw => docKeywords.some(dk => dk.includes(kw) || kw.includes(dk)))
matchingKeywords(queryKeywords, docKeywords) ==
    LET Matches(kw) ==
            \E d \in 1..Len(docKeywords) :
                includes(docKeywords[d], kw) \/ includes(kw, docKeywords[d])
    IN  SelectSeq(queryKeywords, Matches)

\* The keyword score with the two weights exchanged.
keywordScoreWeightsSwapped(score, matching, keywords) ==
    LET n == Max(keywords, 1)
    IN  toFixed4(3 * score * n + 7 * 1000000 * matching, 10 * n)

\* score * 0.7 + (matching / max(keywords, 1)) * 0.3, to four decimals
keywordScore(score, matching, keywords) ==
    LET n == Max(keywords, 1)
    IN  toFixed4(7 * score * n + 3 * 1000000 * matching, 10 * n)

\* The ranked form of one candidate with original_rank counted from 0.
keywordRankedOneZeroBased(result, index, matching, keywords) ==
    RankedResultOf(
        result,
        keywordScore(result.score, matching, keywords),
        "keyword-boost",
        index - 1,
        IF matching > 0
        THEN "Naydeno " \o NatToString(matching) \o " klucevyh slov"
        ELSE "")

\* The return value of the map of rerankByKeywords, from the numbers of
\* matching keywords and of query keywords.
keywordRankedOne(result, index, matching, keywords) ==
    RankedResultOf(
        result,
        keywordScore(result.score, matching, keywords),
        "keyword-boost",
        index,
        IF matching > 0
        THEN "Naydeno " \o NatToString(matching) \o " klucevyh slov"
        ELSE "")

\* The map of rerankByKeywords over the candidates, given the keywords of the
\* query.
keywordRankedWith(queryKeywords, rs) ==
    [index \in 1..Len(rs) |->
        keywordRankedOne(
            rs[index], index,
            Len(matchingKeywords(queryKeywords, extractKeywords(rs[index].text))),
            Len(queryKeywords))]

keywordRanked(queryText, rs) == keywordRankedWith(extractKeywords(queryText), rs)

\* The keyword pass dropping the candidates that match no query keyword.
rerankByKeywordsDropUnmatched(queryText, rs) ==
    LET mapped == keywordRanked(queryText, rs)
        Matched(r) == r.boost_reason # ""
    IN  sortByRerankScore(SelectSeq(mapped, Matched))

\* The keyword pass without its final sort.
rerankByKeywordsUnsorted(queryText, rs) == keywordRanked(queryText, rs)

rerankByKeywords(queryText, rs) == sortByRerankScore(keywordRanked(queryText, rs))

\* /\d+/ finds a match
HasDigit(text) == \E i \in 1..Len(text) : CharAt(text, i) \in DigitSet

RECURSIVE LowerRunEnd(_, _)
LowerRunEnd(s, i) ==
    IF i <= Len(s) /\ CharAt(s, i) \in LowerSet THEN LowerRunEnd(s, i + 1) ELSE i

\* /[A-Z][a-z]+\s+[A-Z][a-z]+/ finds a match: a capital, a run of lower-case
\* letters that ends at white space, the white space, a capital and a
\* lower-case letter.
HasCapitalizedPair(text) ==
    \E i \in 1..Len(text) :
        /\ CharAt(text, i) \in UpperSet
        /\ LET j == LowerRunEnd(text, i + 1)
               m == SkipSpace(text, j)
           IN  /\ j > i + 1
               /\ m > j
               /\ m + 1 <= Len(text)
               /\ CharAt(text, m) \in UpperSet
               /\ CharAt(text, m + 1) \in LowerSet

PositionBoost == 100000
LengthBoost == 50000
DataBoost == 50000
DirectMatchStep == 50000

\* A cap on the direct-match boost of four steps instead of three.
DirectMatchCapOfFour == 4 * DirectMatchStep
DirectMatchCap == 150000
OptimalLengthMin == 200
OptimalLengthMax == 500

\* queryWords.filter(word => word.length > 3 && text.toLowerCase().includes(word)).length
directMatches(queryText, text) ==
    LET lower == toLowerCase(text)
        Direct(word) == Len(word) > 3 /\ includes(lower, word)
    IN  Len(SelectSeq(splitOnSpace(toLowerCase(queryText)), Direct))

\* boostFactors.join(', ')
RECURSIVE Join(_, _)
Join(parts, n) ==
    IF n = 0 THEN ""
    ELSE IF n = 1 THEN parts[1]
         ELSE Join(parts, n - 1) \o ", " \o parts[n]

\* The body of the map of rerankBySemantic, given the number of direct
\* matches.
semanticRankedWith(result, index, direct) ==
    LET positionBoost ==
            \* result.metadata?.position === 0
            IF "metadata" \in DOMAIN result /\ result.metadata.position = 0
            THEN PositionBoost ELSE 0
        textLength == Len(result.text)
        lengthBoost ==
            IF textLength >= OptimalLengthMin /\ textLength <= OptimalLengthMax
            THEN LengthBoost ELSE 0
        dataBoost ==
            IF HasDigit(result.text) \/ HasCapitalizedPair(result.text)
            THEN DataBoost ELSE 0
        directMatchBoost == Min(direct * DirectMatchStep, DirectMatchCap)
        \* Math.min(..., 1.0), then parseFloat(rerank_score.toFixed(4))
        rerank_score ==
            toFixed4(Min(result.score + positionBoost + lengthBoost + dataBoost
                             + directMatchBoost, 1000000), 1)
        boostFactors ==
            (IF positionBoost > 0 THEN <<"pervyy cank">> ELSE <<>>)
            \o (IF lengthBoost > 0 THEN <<"optimalqnaa dlina">> ELSE <<>>)
            \o (IF dataBoost > 0 THEN <<"konkretnye dannye">> ELSE <<>>)
            \o (IF directMatchBoost > 0
                THEN <<NatToString(direct) \o " pramyh sovpadeniy">> ELSE <<>>)
    IN  RankedResultOf(result, rerank_score, "semantic-deep", index,
                       Join(boostFactors, Len(boostFactors)))

semanticRankedOne(queryText, result, index) ==
    semanticRankedWith(result, index, directMatches(queryText, result.text))

rerankBySemantic(queryText, rs) ==
    sortByRerankScore([index \in 1..Len(rs) |->
                          semanticRankedOne(queryText, rs[index], index)])

\* semanticMap.get(id): the rerank_score of the last entry with this id, or
\* undefined when there is none.
semanticMapGet(semanticResults, id) ==
    LET hits == {i \in 1..Len(semanticResults) : semanticResults[i].id = id}
    IN  IF hits = {} THEN [defined |-> FALSE]
        ELSE [defined |-> TRUE,
              value |-> semanticResults[CHOOSE i \in hits :
                                            \A j \in hits : j <= i].rerank_score]

\* semanticMap.get(result.id) || result.score: the right operand is taken when
\* the left one is undefined or is the number 0.
semanticScoreOrFallback(semanticResults, result) ==
    LET got == semanticMapGet(semanticResults, result.id)
    IN  IF got.defined /\ got.value # 0 THEN got.value ELSE result.score

\* The body of the map of rerankHybrid:
\* (result.rerank_score * 0.5 + semanticScore * 0.5).toFixed(4)
hybridRankedOne(semanticResults, result) ==
    RankedResultOf(
        result,
        toFixed4(result.rerank_score
                          + semanticScoreOrFallback(semanticResults, result), 2),
        "hybrid", result.original_rank, result.boost_reason)

\* The map of rerankHybrid over the keyword-ranked list and its sort.
combineHybrid(keywordResults, semanticResults) ==
    sortByRerankScore([i \in 1..Len(keywordResults) |->
                          hybridRankedOne(semanticResults, keywordResults[i])])

rerankHybrid(queryText, rs) ==
    combineHybrid(rerankByKeywords(queryText, rs), rerankBySemantic(queryText, rs))

\* The value 'none' of the switch: no boost_reason, no sort.
rerankNone(rs) ==
    [index \in 1..Len(rs) |->
        [id |-> rs[index].id, text |-> rs[index].text,
         source |-> rs[index].source, score |-> rs[index].score,
         metadata |-> rs[index].metadata,
         rerank_score |-> rs[index].score, rerank_method |-> "none",
         original_rank |-> index]]

RerankMethods == {"keyword-boost", "semantic-deep", "hybrid", "llm", "none"}

rerankResults(queryText, searchResults, rerank_method) ==
    IF Len(searchResults) = 0 THEN <<>>
    ELSE CASE rerank_method = "keyword-boost" ->
                  rerankByKeywords(queryText, searchResults)
           [] rerank_method = "semantic-deep" ->
                  rerankBySemantic(queryText, searchResults)
           [] rerank_method = "hybrid" -> rerankHybrid(queryText, searchResults)
           [] rerank_method = "none" -> rerankNone(searchResults)
           [] OTHER -> rerankHybrid(queryText, searchResults)

\* results.filter(r => r.rerank_score >= threshold)
filterByQuality(rs, threshold) ==
    LET Keep(r) == r.rerank_score >= threshold
    IN  SelectSeq(rs, Keep)

\* The optional argument minScore: not given, or a number.
NoMinScore == [defined |-> FALSE]

MinScoreOf(value) == [defined |-> TRUE, value |-> value]

\* The top results with the threshold applied only when it is truthy, so that
\* a threshold of 0 counts as not given.
getTopRankedTruthyMinScore(rs, topK, minScore) ==
    LET Keep(r) == r.rerank_score >= minScore.value
        filtered == IF minScore.defined /\ minScore.value # 0
                    THEN SelectSeq(rs, Keep) ELSE rs
    IN  Slice(filtered, topK)

\* if (minScore !== undefined) filtered = results.filter(...);
\* return filtered.slice(0, topK)
getTopRanked(rs, topK, minScore) ==
    LET Keep(r) == r.rerank_score >= minScore.value
        filtered == IF minScore.defined THEN SelectSeq(rs, Keep) ELSE rs
    IN  Slice(filtered, topK)

RerankResults ==
    /\ call.fn = "idle"
    /\ \E rerank_method \in RerankMethods :
          /\ call' = [fn |-> "rerankResults", rerank_method |-> rerank_method]
          /\ ret' = Returned(rerankResults(query, results, rerank_method))
    /\ ranked' = ret'.value
    /\ UNCHANGED <<async, items, queryEmbedding, query, results>>

\* Query texts: three keywords none longer than three letters; the scenario
\* query; a query of stop words.
Queries == {"sql api css", "database used project", "Which is the"}

\* Similarity scores of the candidates handed to the reranker.
SimilarityScores == {-50000, 900000, 980700}

\* Lists of different chunks of the index, in any order, with any of the
\* given scores.
CandidateListsOf(scores) ==
    UNION { { [i \in 1..n |-> SearchResultOf(Chunks[c[i]], s[i])] :
              c \in {f \in [1..n -> 1..Len(Chunks)] :
                        \A i, j \in 1..n : i # j => f[i] # f[j]},
              s \in [1..n -> scores] } :
            n \in 0..Min(MaxResults, Len(Chunks)) }

CandidateLists == CandidateListsOf(SimilarityScores)

InitRerank ==
    /\ items = <<>>
    /\ queryEmbedding = <<>>
    /\ query \in Queries
    /\ results \in CandidateLists
    /\ ranked = <<>>
    /\ call = Idle
    /\ ret = NoReturn
    /\ NoAsync

NextRerank ==
    \/ RerankResults

SpecRerank == InitRerank /\ [][NextRerank]_vars

Ids(rs) == {rs[i].id : i \in 1..Len(rs)}

FourMethods == {"none", "keyword-boost", "semantic-deep", "hybrid"}

Reranked(methods) == call.fn = "rerankResults" /\ call.rerank_method \in methods

SortedByRerankScore(rs) ==
    \A i \in 1..(Len(rs) - 1) : rs[i].rerank_score >= rs[i + 1].rerank_score

SortedByScore(rs) ==
    \A i \in 1..(Len(rs) - 1) : rs[i].score >= rs[i + 1].score

\* C3: for each of the four methods the returned list has the length of the
\* input and the same set of ids, no id occurring twice.
C3_SameIds ==
    Reranked(FourMethods) =>
        /\ Len(ret.value) = Len(results)
        /\ Ids(ret.value) = Ids(results)
        /\ \A i, j \in 1..Len(ret.value) :
               ret.value[i].id = ret.value[j].id => i = j

\* C3 witness: the hybrid method returns two candidates in the other order.
C3_Witness ==
    /\ Reranked({"hybrid"})
    /\ Len(results) = 2
    /\ ret.value[1].id = results[2].id
    /\ ret.value[2].id = results[1].id

\* The rerank_score the keyword pass, called alone, gives the item with this id.
KeywordScoreOf(id) ==
    LET pass == rerankByKeywords(query, results)
    IN  pass[CHOOSE i \in 1..Len(pass) : pass[i].id = id].rerank_score

\* The rerank_score the semantic pass, called alone, gives the item with this
\* id, or the item's similarity score when the pass returns no such item.
SemanticScoreOrOriginal(id, score) ==
    LET pass == rerankBySemantic(query, results)
    IN  IF \E i \in 1..Len(pass) : pass[i].id = id
        THEN pass[CHOOSE i \in 1..Len(pass) : pass[i].id = id].rerank_score
        ELSE score

\* C4: the hybrid rerank_score of every candidate is the mean of its
\* keyword-boost score and its semantic-deep score, kept to four decimals like
\* every rerank_score; the similarity score stands in for the semantic half
\* only when the semantic pass has no item of that id.
C4_HybridIsMeanOfBothPasses ==
    Reranked({"hybrid"}) =>
        \A i \in 1..Len(ret.value) :
            LET r == ret.value[i]
            IN  r.rerank_score =
                    toFixed4(KeywordScoreOf(r.id)
                                      + SemanticScoreOrOriginal(r.id, r.score), 2)

\* The ids of the chunks processDocument made first of their document.
FirstChunkIds ==
    {Chunks[i].id : i \in {k \in 1..Len(Chunks) :
        \A j \in 1..Len(Chunks) :
            Chunks[j].source = Chunks[k].source
                => Chunks[k].metadata.position <= Chunks[j].metadata.position}}

\* C5: semantic-deep gives the position boost (+0.10, reported as the first
\* chunk in boost_reason) to a chunk exactly when it is the first chunk of its
\* document as ingested by processDocument.
C5_FirstChunkGetsPositionBoost ==
    Reranked({"semantic-deep"}) =>
        \A i \in 1..Len(ret.value) :
            (ret.value[i].id \in FirstChunkIds)
                <=> includes(ret.value[i].boost_reason, "pervyy cank")

\* C9 as claimed: for each of the four methods, none included, and any input
\* order the returned list is in non-increasing order of rerank_score.
C9_EveryMethodSorts ==
    Reranked(FourMethods) => SortedByRerankScore(ret.value)

\* C9 as amended: keyword-boost, semantic-deep and hybrid return a list in
\* non-increasing order of rerank_score for any input order; none returns the
\* input order, in non-increasing order of rerank_score when, and only when,
\* the input is in non-increasing order of score.
C9_SortedUnlessNone ==
    /\ Reranked(FourMethods \ {"none"}) => SortedByRerankScore(ret.value)
    /\ Reranked({"none"}) =>
           /\ \A i \in 1..Len(results) : ret.value[i].id = results[i].id
           /\ SortedByRerankScore(ret.value) <=> SortedByScore(results)

\* C9 witness: keyword-boost moves the second candidate, whose similarity is
\* the lower one, to the front.
C9_Witness ==
    /\ Reranked({"keyword-boost"})
    /\ Len(results) = 2
    /\ results[1].score > results[2].score
    /\ ret.value[1].id = results[2].id
    /\ ret.value[1].rerank_score > ret.value[2].rerank_score

\* C10: for every method, hybrid included, two returned items with equal
\* rerank_score are in their input order: the smaller original_rank first.
C10_TiesKeepInputOrder ==
    Reranked(FourMethods) =>
        \A i, j \in 1..Len(ret.value) :
            (i < j /\ ret.value[i].rerank_score = ret.value[j].rerank_score)
                => ret.value[i].original_rank < ret.value[j].original_rank

\* The number of keywords of the query that some keyword of the text contains
\* or is contained in.
OverlapCount(text) ==
    LET qk == extractKeywords(query)
        dk == extractKeywords(text)
    IN  Cardinality({k \in 1..Len(qk) :
            \E d \in 1..Len(dk) : includes(dk[d], qk[k]) \/ includes(qk[k], dk[d])})

\* max(number of query keywords, 1)
OverlapDivisor == Max(Len(extractKeywords(query)), 1)

\* C12 as claimed: the keyword-boost rerank_score is exactly
\* 0.7 * score + 0.3 * overlap, overlap being the matching query keywords
\* over max(query keywords, 1).
C12_KeywordScoreExact ==
    Reranked({"keyword-boost"}) =>
        \A i \in 1..Len(ret.value) :
            10 * OverlapDivisor * ret.value[i].rerank_score =
                7 * ret.value[i].score * OverlapDivisor
                    + 3 * 1000000 * OverlapCount(ret.value[i].text)

\* C12 as amended: the keyword-boost rerank_score is 0.7 * score + 0.3 * overlap
\* rounded to four decimals, and 0.7 * score rounded to four decimals when the
\* query has no keyword.
C12_KeywordScoreRounded ==
    Reranked({"keyword-boost"}) =>
        \A i \in 1..Len(ret.value) :
            /\ ret.value[i].rerank_score =
                   toFixed4(7 * ret.value[i].score * OverlapDivisor
                                + 3 * 1000000 * OverlapCount(ret.value[i].text),
                            10 * OverlapDivisor)
            /\ extractKeywords(query) = <<>>
                   => ret.value[i].rerank_score
                          = toFixed4(7 * ret.value[i].score, 10)

\* C12 witness: one of three query keywords matches an item whose weighted
\* score has a fifth decimal.
C12_Witness ==
    /\ Reranked({"keyword-boost"})
    /\ Len(extractKeywords(query)) = 3
    /\ \E i \in 1..Len(ret.value) :
           /\ OverlapCount(ret.value[i].text) = 1
           /\ (7 * ret.value[i].score) % 1000 # 0

\* The fields of a ranked result that come from the candidate it was made of.
SearchResultFields(r) ==
    [id |-> r.id, text |-> r.text, source |-> r.source, score |-> r.score,
     metadata |-> r.metadata]

\* C20: for every rerank method each returned item's original_rank is the
\* 1-based position the item had in the list passed to the reranker: the
\* candidate at that position is the one the item was made of, and no position
\* is used twice; with method none the output keeps the input order and every
\* rerank_score equals score.
C20_OriginalRankIsInputPosition ==
    Reranked(RerankMethods) =>
        /\ \A i \in 1..Len(ret.value) :
              /\ ret.value[i].original_rank \in 1..Len(results)
              /\ SearchResultFields(ret.value[i]) = results[ret.value[i].original_rank]
        /\ \A i, j \in 1..Len(ret.value) :
              ret.value[i].original_rank = ret.value[j].original_rank => i = j
        /\ call.rerank_method = "none" =>
              /\ Len(ret.value) = Len(results)
              /\ \A i \in 1..Len(ret.value) :
                    /\ ret.value[i].original_rank = i
                    /\ ret.value[i].rerank_score = ret.value[i].score

\* C20 witness: the hybrid method moves the second candidate to the front, and
\* its original_rank is still 2.
C20_Witness ==
    /\ Reranked({"hybrid"})
    /\ Len(results) = 2
    /\ Len(ret.value) = 2
    /\ ret.value[1].original_rank = 2
    /\ ret.value[2].original_rank = 1
    /\ SearchResultFields(ret.value[1]) = results[2]
    /\ results[1] # results[2]

\* C20 witness for the method none: an unsorted list comes back in its order.
C20_WitnessNone ==
    /\ Reranked({"none"})
    /\ Len(results) = 2
    /\ results[1].score < results[2].score
    /\ ret.value[1].original_rank = 1
    /\ ret.value[2].original_rank = 2

---------------------------------------------------------------------------
(* The semantic pass on candidates of any index.                           *)

\* A chunk of an index whose positions count from 0: the first chunk of its
\* document, of the optimal length, holding a digit.
ZeroPositionChunk ==
    [id |-> "x1", text |-> TextLong, source |-> "c.md",
     metadata |-> [position |-> 0, totalChunks |-> 1]]

BoostChunks == Chunks \o <<ZeroPositionChunk>>

\* A query of four words longer than three letters, all in TextLong; the
\* scenario query.
BoostQueries == {"Version notes lorem ipsum", "database used project"}

\* A score of six decimals; a score that the boosts lift over 1.0.
BoostScores == {612345, 980700}

\* Lists of different chunks, in any order, with any of the given scores.
CandidateListsFrom(chunks, scores) ==
    UNION { { [i \in 1..n |-> SearchResultOf(chunks[c[i]], s[i])] :
              c \in {f \in [1..n -> 1..Len(chunks)] :
                        \A i, j \in 1..n : i # j => f[i] # f[j]},
              s \in [1..n -> scores] } :
            n \in 0..Min(MaxResults, Len(chunks)) }

InitSemantic ==
    /\ items = <<>>
    /\ queryEmbedding = <<>>
    /\ query \in BoostQueries
    /\ results \in CandidateListsFrom(BoostChunks, BoostScores)
    /\ ranked = <<>>
    /\ call = Idle
    /\ ret = NoReturn
    /\ NoAsync

NextSemantic ==
    \/ RerankResults

SpecSemantic == InitSemantic /\ [][NextSemantic]_vars

\* The number of words of the query longer than three characters that the
\* text holds, letter case apart.
DirectMatchCount(text) ==
    LET words == splitOnSpace(toLowerCase(query))
    IN  Cardinality({w \in 1..Len(words) :
            Len(words[w]) > 3 /\ includes(toLowerCase(text), words[w])})

\* score + position boost + length boost + data boost + direct-match boost,
\* clamped to 1.0, for a position boost p: the length boost is 0.05 for a text
\* of 200 to 500 characters, the data boost 0.05 for a text with a digit or a
\* capitalized pair, the direct-match boost 0.05 * min(directMatches, 3).
BoostedScore(r, p) ==
    Min(r.score + p
            + (IF Len(r.text) >= 200 /\ Len(r.text) <= 500 THEN 50000 ELSE 0)
            + (IF HasDigit(r.text) \/ HasCapitalizedPair(r.text) THEN 50000 ELSE 0)
            + 50000 * Min(DirectMatchCount(r.text), 3),
        1000000)

\* C13 as claimed: the semantic-deep rerank_score is exactly
\* min(score + the four boosts, 1.0), the position boost being 0 or 0.10; it
\* is at most score + 0.35 and at most 1.0.
C13_SemanticScoreExact ==
    Reranked({"semantic-deep"}) =>
        \A i \in 1..Len(ret.value) :
            LET r == ret.value[i]
            IN  /\ \E p \in {0, 100000} : r.rerank_score = BoostedScore(r, p)
                /\ r.rerank_score <= r.score + 350000
                /\ r.rerank_score <= 1000000

\* C13 as amended: the semantic-deep rerank_score is min(score + the four
\* boosts, 1.0) rounded to four decimals; before the rounding it is at most
\* score + 0.35, and it is at most 1.0.
C13_SemanticScoreRounded ==
    Reranked({"semantic-deep"}) =>
        \A i \in 1..Len(ret.value) :
            LET r == ret.value[i]
            IN  /\ \E p \in {0, 100000} :
                       /\ r.rerank_score = toFixed4(BoostedScore(r, p), 1)
                       /\ BoostedScore(r, p) <= r.score + 350000
                /\ r.rerank_score <= 1000000

\* C13 witness: a chunk that gets all four boosts, four direct matches counted
\* as three, on a score of six decimals: 0.612345 + 0.35 comes out as 0.9623.
C13_Witness ==
    /\ Reranked({"semantic-deep"})
    /\ \E i \in 1..Len(ret.value) :
           /\ ret.value[i].metadata.position = 0
           /\ DirectMatchCount(ret.value[i].text) = 4
           /\ ret.value[i].score = 612345
           /\ ret.value[i].rerank_score = 962300

---------------------------------------------------------------------------
(* The cut of a ranked list: filterByQuality and getTopRanked.             *)

FilterByQuality ==
    /\ call.fn = "rerankResults"
    /\ \E threshold \in Thresholds :
          /\ call' = [fn |-> "filterByQuality", threshold |-> threshold]
          /\ ret' = Returned(filterByQuality(ranked, threshold))
    /\ UNCHANGED <<async, items, queryEmbedding, query, results, ranked>>

\* The thresholds handed to getTopRanked: none, 0, and one between the scores.
MinScores == {NoMinScore, MinScoreOf(0), MinScoreOf(700000)}

GetTopRanked ==
    /\ call.fn = "rerankResults"
    /\ \E topK \in 0..MaxTopK, minScore \in MinScores :
          /\ call' = [fn |-> "getTopRanked", topK |-> topK, minScore |-> minScore]
          /\ ret' = Returned(getTopRanked(ranked, topK, minScore))
    /\ UNCHANGED <<async, items, queryEmbedding, query, results, ranked>>

InitTopRanked ==
    /\ items = <<>>
    /\ queryEmbedding = <<>>
    /\ query = "database used project"
    /\ results \in CandidateListsFrom(Chunks, {-50000, 900000})
    /\ ranked = <<>>
    /\ call = Idle
    /\ ret = NoReturn
    /\ NoAsync

NextTopRanked ==
    \/ RerankResults
    \/ FilterByQuality
    \/ GetTopRanked

SpecTopRanked == InitTopRanked /\ [][NextTopRanked]_vars

\* The indices of the ranked list whose rerank_score reaches the threshold.
QualityIndices(threshold) ==
    {i \in 1..Len(ranked) : ranked[i].rerank_score >= threshold}

\* C19: getTopRanked(results, k, t) is the first k items of
\* filterByQuality(results, t): at most k items, each with rerank_score >= t,
\* in input order, and they are the first ones of the input that qualify; with
\* no threshold it is the first k items of the input.
C19_TopRankedIsFilteredPrefix ==
    call.fn = "getTopRanked" =>
        IF call.minScore.defined
        THEN LET t == call.minScore.value
                 kept == QualityIndices(t)
             IN  /\ ret.value = SubSeq(filterByQuality(ranked, t), 1,
                                       Min(call.topK, Len(filterByQuality(ranked, t))))
                 /\ Len(ret.value) = Min(call.topK, Cardinality(kept))
                 /\ \A j \in 1..Len(ret.value) :
                        /\ ret.value[j] = ranked[NthOf(kept, j)]
                        /\ ret.value[j].rerank_score >= t
        ELSE ret.value = SubSeq(ranked, 1, Min(call.topK, Len(ranked)))

\* C19 witness: with the threshold 0 and k = 1 the first item of the list, of
\* negative rerank_score, is left out and the second is returned.
C19_Witness ==
    /\ call.fn = "getTopRanked"
    /\ call.minScore = MinScoreOf(0)
    /\ call.topK = 1
    /\ Len(ranked) = 2
    /\ ranked[1].rerank_score < 0
    /\ ret.value = <<ranked[2]>>

---------------------------------------------------------------------------
(* Context Assembler (src/lib/rag.ts).                                     *)

\* (x * 100).toFixed(1) of a score x: one decimal, the sign kept for every
\* negative x.
percentToFixed1(score) ==
    LET tenths == Abs(RoundHalfAway(score, 1000))
    IN  (IF score < 0 THEN "-" ELSE "")
            \o NatToString(tenths \div 10) \o "." \o NatToString(tenths % 10)

\* The last width decimal digits of n, zeros in front included.
RECURSIVE PadDigits(_, _)
PadDigits(n, width) ==
    IF width = 0 THEN ""
    ELSE PadDigits(n \div 10, width - 1) \o NatToString(n % 10)

\* The fraction digits of n / 10^width (0 < n < 10^width), without the zeros
\* at the end.
RECURSIVE FractionDigits(_, _)
FractionDigits(n, width) ==
    IF n % 10 = 0 THEN FractionDigits(n \div 10, width - 1)
    ELSE PadDigits(n, width)

\* `${x}` of a number x of at most six decimals
numberToString(x) ==
    (IF x < 0 THEN "-" ELSE "")
        \o NatToString(Abs(x) \div 1000000)
        \o (IF Abs(x) % 1000000 = 0 THEN ""
            ELSE "." \o FractionDigits(Abs(x) % 1000000, 6))

\* The number a string of decimal digits writes.
RECURSIVE NatOfString(_)
NatOfString(s) ==
    IF Len(s) = 0 THEN 0
    ELSE 10 * NatOfString(SubSeq(s, 1, Len(s) - 1))
             + (CHOOSE d \in 0..9 : CharAt(Digits, d + 1) = CharAt(s, Len(s)))

\* An integer index as a property key: the canonical decimal writing of a
\* natural number (below 2^32 - 1; the keys of the model have nine digits at
\* most).
IsIntegerKey(s) ==
    /\ Len(s) > 0
    /\ Len(s) <= 9
    /\ \A i \in 1..Len(s) : CharAt(s, i) \in DigitSet
    /\ Len(s) = 1 \/ CharAt(s, 1) # "0"

\* The property keys of bySource in the order the reduce creates them: the
\* sources in the order of their first chunk.
sourcesInserted(rs) ==
    LET firsts == {i \in 1..Len(rs) :
                      \A k \in 1..(i - 1) : rs[k].source # rs[i].source}
    IN  [g \in 1..Cardinality(firsts) |-> rs[NthOf(firsts, g)].source]

\* Object.entries(bySource): the own property keys in the order of
\* OrdinaryOwnPropertyKeys, first the integer indices in ascending numeric
\* order, then the other strings in the order of their creation.
sourcesInOrder(rs) ==
    LET NotIntegerKey(s) == ~IsIntegerKey(s)
        NegatedValues(keys) == [i \in 1..Len(keys) |-> -NatOfString(keys[i])]
        AscendingNumeric(keys) == SortDesc(keys, NegatedValues(keys))
    IN  AscendingNumeric(SelectSeq(sourcesInserted(rs), IsIntegerKey))
            \o SelectSeq(sourcesInserted(rs), NotIntegerKey)

chunksOfSource(rs, source) ==
    LET FromSource(r) == r.source = source
    IN  SelectSeq(rs, FromSource)

\* What the inner forEach appends for one chunk.
fragmentText(chunk, chunkIndex) ==
    LET isRanked == "rerank_score" \in DOMAIN chunk
        scoreText ==
            "relevantnostq: "
                \o percentToFixed1(IF isRanked THEN chunk.rerank_score
                                   ELSE chunk.score)
                \o "%"
    IN  "\n[Fragment " \o NatToString(chunkIndex) \o ", " \o scoreText \o "]\n"
            \o chunk.text \o "\n"
            \o (IF isRanked /\ "boost_reason" \in DOMAIN chunk
                   /\ chunk.boost_reason # ""
                THEN "(+bust: " \o chunk.boost_reason \o ")\n" ELSE "")

RECURSIVE ConcatAll(_, _)
ConcatAll(parts, n) ==
    IF n = 0 THEN "" ELSE ConcatAll(parts, n - 1) \o parts[n]

\* What the outer forEach appends for one source.
sourceText(rs, source, index) ==
    LET chunks == chunksOfSource(rs, source)
        fragments == [c \in 1..Len(chunks) |-> fragmentText(chunks[c], c)]
    IN  "\n--- DOKUMENT " \o NatToString(index) \o ": " \o source \o " ---\n"
            \o ConcatAll(fragments, Len(fragments))

formatContextForLLM(rs) ==
    IF Len(rs) = 0 THEN "Relevantnoy informacii v dokumentah ne naydeno."
    ELSE LET sources == sourcesInOrder(rs)
             blocks == [g \in 1..Len(sources) |-> sourceText(rs, sources[g], g)]
         IN  trim(ConcatAll(blocks, Len(blocks)))

\* The loop with continue in place of break: a result that does not fit is
\* passed over and the later ones are still tried.
RECURSIVE selectSkippingOverLimit(_, _, _, _, _)
selectSkippingOverLimit(rs, lengths, maxChars, i, currentLength) ==
    IF i > Len(rs) THEN <<>>
    ELSE IF currentLength + lengths[i] <= maxChars
         THEN <<rs[i]>> \o selectSkippingOverLimit(rs, lengths, maxChars, i + 1,
                                                   currentLength + lengths[i])
         ELSE selectSkippingOverLimit(rs, lengths, maxChars, i + 1, currentLength)

\* The for loop of both assemblers: the results taken in order while the
\* running total of the measured lengths stays within maxChars, up to the
\* first one that does not fit.  lengths[i] is chunkText.length of rs[i].
RECURSIVE selectWithinLimit(_, _, _, _, _)
selectWithinLimit(rs, lengths, maxChars, i, currentLength) ==
    IF i > Len(rs) THEN <<>>
    ELSE IF currentLength + lengths[i] <= maxChars
         THEN <<rs[i]>> \o selectWithinLimit(rs, lengths, maxChars, i + 1,
                                             currentLength + lengths[i])
         ELSE <<>>

\* `\n[${result.source}]\n${result.text}\n`
chunkTextOfLimit(result) ==
    "\n[" \o result.source \o "]\n" \o result.text \o "\n"

\* `\n[${result.source}, score: ${result.rerank_score}]\n${result.text}\n`
chunkTextOfReranking(result) ==
    "\n[" \o result.source \o ", score: " \o numberToString(result.rerank_score)
        \o "]\n" \o result.text \o "\n"

\* The assembler cutting the block of the first result to the budget when that
\* block does not fit.
prepareContextTruncatingFirst(rs, maxChars) ==
    LET lengths == [i \in 1..Len(rs) |-> Len(chunkTextOfLimit(rs[i]))]
        selectedResults == selectWithinLimit(rs, lengths, maxChars, 1, 0)
    IN  IF Len(rs) > 0 /\ Len(selectedResults) = 0
        THEN SubSeq(chunkTextOfLimit(rs[1]), 1, maxChars)
        ELSE formatContextForLLM(selectedResults)

prepareContextWithLimit(rs, maxChars) ==
    LET lengths == [i \in 1..Len(rs) |-> Len(chunkTextOfLimit(rs[i]))]
        selectedResults == selectWithinLimit(rs, lengths, maxChars, 1, 0)
    IN  formatContextForLLM(selectedResults)

prepareContextWithReranking(rs, queryText, maxChars) ==
    LET lengths == [i \in 1..Len(rs) |-> Len(chunkTextOfReranking(rs[i]))]
        selectedResults == selectWithinLimit(rs, lengths, maxChars, 1, 0)
    IN  formatContextForLLM(selectedResults)

\* Character budgets a caller may pass as maxChars; 8000 is the default.
CharBudgets == {0, 52, 81, 300, 8000}

PrepareContextWithLimit ==
    /\ call.fn = "idle"
    /\ \E maxChars \in CharBudgets :
          /\ call' = [fn |-> "prepareContextWithLimit", maxChars |-> maxChars]
          /\ ret' = Returned(prepareContextWithLimit(results, maxChars))
    /\ UNCHANGED <<async, items, queryEmbedding, query, results, ranked>>

PrepareContextWithReranking ==
    /\ call.fn = "rerankResults"
    /\ \E maxChars \in CharBudgets :
          /\ call' = [fn |-> "prepareContextWithReranking", maxChars |-> maxChars]
          /\ ret' = Returned(prepareContextWithReranking(ranked, query, maxChars))
    /\ UNCHANGED <<async, items, queryEmbedding, query, results, ranked>>

FormatContextForLLM ==
    /\ call.fn = "idle"
    /\ call' = [fn |-> "formatContextForLLM"]
    /\ ret' = Returned(formatContextForLLM(results))
    /\ UNCHANGED <<async, items, queryEmbedding, query, results, ranked>>

\* Similarity scores of the lists handed to the assemblers.
ContextScores == {-50000, 900000}

InitContext ==
    /\ items = <<>>
    /\ queryEmbedding = <<>>
    /\ query = "database used project"
    /\ results \in CandidateListsOf(ContextScores)
    /\ ranked = <<>>
    /\ call = Idle
    /\ ret = NoReturn
    /\ NoAsync

NextContext ==
    \/ FormatContextForLLM
    \/ PrepareContextWithLimit
    \/ RerankResults
    \/ PrepareContextWithReranking

SpecContext == InitContext /\ [][NextContext]_vars

Assembled == call.fn \in {"prepareContextWithLimit", "prepareContextWithReranking"}

\* C1: the string either budgeted assembler returns is at most maxChars
\* characters long, also when no item is accepted.
C1_OutputWithinBudget ==
    Assembled => Len(ret.value) <= call.maxChars

\* The list handed to the budgeted assembler that was called.
AssembledInput == IF call.fn = "prepareContextWithReranking" THEN ranked ELSE results

\* The length of the block the assembler measures for the i-th item of its
\* input.
MeasuredLength(i) ==
    IF call.fn = "prepareContextWithReranking"
    THEN Len("\n[" \o ranked[i].source \o ", score: "
                 \o numberToString(ranked[i].rerank_score) \o "]\n"
                 \o ranked[i].text \o "\n")
    ELSE Len("\n[" \o results[i].source \o "]\n" \o results[i].text \o "\n")

\* The length of the longest prefix of the input whose measured lengths add up
\* to the budget at most.
FittingPrefix ==
    LET Fits(k) == Sum([i \in 1..k |-> MeasuredLength(i)]) <= call.maxChars
    IN  CHOOSE k \in 0..Len(AssembledInput) :
            /\ \A j \in 0..k : Fits(j)
            /\ k < Len(AssembledInput) => ~Fits(k + 1)

\* C14: the budgeted assemblers put into the output the text, whole, of
\* exactly the items of the longest prefix of the input whose measured lengths
\* add up to the budget at most; no later item is in the output, and a budget
\* of at least the total measured length takes every item.
C14_LongestFittingPrefix ==
    Assembled =>
        /\ \A i \in 1..Len(AssembledInput) :
               includes(ret.value, AssembledInput[i].text) <=> i <= FittingPrefix
        /\ Sum([i \in 1..Len(AssembledInput) |-> MeasuredLength(i)]) <= call.maxChars
               => \A i \in 1..Len(AssembledInput) :
                      includes(ret.value, AssembledInput[i].text)

\* C14 witness: of two items the first fits the budget and is in the output,
\* the second does not fit and is left out.
C14_Witness ==
    /\ call.fn = "prepareContextWithLimit"
    /\ Len(results) = 2
    /\ FittingPrefix = 1
    /\ includes(ret.value, results[1].text)
    /\ ~includes(ret.value, results[2].text)

\* C15: with a budget smaller than the measured block of the first item, the
\* budgeted assembler does not raise and returns the message of the empty
\* context, which holds no text of any chunk, whole or cut.
C15_BudgetBelowFirstBlock ==
    (Assembled /\ Len(AssembledInput) > 0 /\ call.maxChars < MeasuredLength(1)) =>
        /\ ~ret.threw
        /\ ret.value = "Relevantnoy informacii v dokumentah ne naydeno."
        /\ \A i \in 1..Len(AssembledInput) :
               ~includes(ret.value, SubSeq(AssembledInput[i].text, 1, 5))

\* C15 witness: a budget of 52 characters and a first item whose block is
\* longer.
C15_Witness ==
    /\ call.fn = "prepareContextWithLimit"
    /\ Len(results) = 2
    /\ call.maxChars = 52
    /\ MeasuredLength(1) > 52
    /\ ret.value = "Relevantnoy informacii v dokumentah ne naydeno."

---------------------------------------------------------------------------
(* The assemblers on results of any source names.                          *)

\* Source names: file names as ingestion gives them, and names that are
\* decimal numbers.
SourceNames == {"a.md", "b.md", "2", "10"}

\* The first n chunks of the index under any of the source names, in index
\* order, all with one score.
SourcedLists ==
    UNION { { [i \in 1..n |->
                  [id |-> Chunks[i].id, text |-> Chunks[i].text,
                   source |-> s[i], score |-> 900000,
                   metadata |-> Chunks[i].metadata]] :
              s \in [1..n -> SourceNames] } :
            n \in 0..Min(MaxScored, Len(Chunks)) }

InitFormat ==
    /\ items = <<>>
    /\ queryEmbedding = <<>>
    /\ query = ""
    /\ results \in SourcedLists
    /\ ranked = <<>>
    /\ call = Idle
    /\ ret = NoReturn
    /\ NoAsync

NextFormat ==
    \/ FormatContextForLLM
    \/ PrepareContextWithLimit

SpecFormat == InitFormat /\ [][NextFormat]_vars

\* The places of the string where the pattern starts.
Occurrences(text, pattern) ==
    {i \in 1..(Len(text) - Len(pattern) + 1) :
        SubSeq(text, i, i + Len(pattern) - 1) = pattern}

\* The first place where the pattern starts (the pattern occurs).
FirstOccurrence(text, pattern) ==
    CHOOSE i \in Occurrences(text, pattern) :
        \A j \in Occurrences(text, pattern) : i <= j

\* The end of the header line of a source.
HeaderEnd(source) == ": " \o source \o " ---\n"

\* The chunks the call accepted: all of them for formatContextForLLM, the
\* fitting prefix for the budgeted assembler.
Accepted ==
    IF call.fn = "formatContextForLLM" THEN results
    ELSE SubSeq(results, 1, FittingPrefix)

\* C16: in the assembled context every source with an accepted chunk has
\* exactly one header, the headers come in the order in which the sources
\* first occur among the accepted chunks, and the chunks of one source come in
\* their input order.
C16_GroupsInFirstOccurrenceOrder ==
    (call.fn \in {"formatContextForLLM", "prepareContextWithLimit"}
         /\ Len(Accepted) > 0) =>
        /\ \A i \in 1..Len(Accepted) :
               Cardinality(Occurrences(ret.value \o "\n",
                                       HeaderEnd(Accepted[i].source))) = 1
        /\ \A i, j \in 1..Len(Accepted) :
               (/\ i < j
                /\ Accepted[i].source # Accepted[j].source
                /\ \A k \in 1..(i - 1) : Accepted[k].source # Accepted[i].source
                /\ \A k \in 1..(j - 1) : Accepted[k].source # Accepted[j].source)
               => FirstOccurrence(ret.value, HeaderEnd(Accepted[i].source))
                      < FirstOccurrence(ret.value, HeaderEnd(Accepted[j].source))
        /\ \A i, j \in 1..Len(Accepted) :
               (i < j /\ Accepted[i].source = Accepted[j].source)
               => FirstOccurrence(ret.value, Accepted[i].text)
                      < FirstOccurrence(ret.value, Accepted[j].text)

---------------------------------------------------------------------------
(* The comparison harness of the reranker: compareRankingMethods           *)
(* (src/unnamed/part_005).  The input array is a variable the passes could *)
(* write; every pass is a step of its own, taken in any order.             *)

\* What one pass does: the input array as the pass leaves it, and the array
\* the pass returns.
PassEffect(input, returned) == [results |-> input, returned |-> returned]

\* results.map(...) of the method none: a new array, the input is not written.
passNone(rs) == PassEffect(rs, rerankNone(rs))

\* A keyword pass that sorts the input array in place by score before mapping
\* it.
passKeywordSortingInput(queryText, rs) ==
    PassEffect(SortDesc(rs, Scores(rs)),
               rerankByKeywords(queryText, SortDesc(rs, Scores(rs))))

\* results.map(...).sort(...): map builds a new array and sort works in place
\* on that new array; the input is not written.
passKeyword(queryText, rs) == PassEffect(rs, rerankByKeywords(queryText, rs))

passSemantic(queryText, rs) == PassEffect(rs, rerankBySemantic(queryText, rs))

\* The hybrid pass runs the keyword and the semantic pass on the input and
\* maps the keyword pass's new array.
passHybrid(queryText, rs) == PassEffect(rs, rerankHybrid(queryText, rs))

\* The keys of the object compareRankingMethods returns.
CompareKeys == {"none", "keyword", "semantic", "hybrid"}

passOf(key, queryText, rs) ==
    CASE key = "none" -> passNone(rs)
      [] key = "keyword" -> passKeyword(queryText, rs)
      [] key = "semantic" -> passSemantic(queryText, rs)
      [] key = "hybrid" -> passHybrid(queryText, rs)

\* The rerank_method of rerankResults that corresponds to a key.
MethodOfKey(key) ==
    CASE key = "none" -> "none"
      [] key = "keyword" -> "keyword-boost"
      [] key = "semantic" -> "semantic-deep"
      [] key = "hybrid" -> "hybrid"

\* The call: the argument is remembered as it was passed.
CompareRankingMethods ==
    /\ call.fn = "idle"
    /\ call' = [fn |-> "compareRankingMethods", given |-> results,
                pending |-> CompareKeys]
    /\ ret' = Returned(<<>>)
    /\ UNCHANGED <<async, items, queryEmbedding, query, results, ranked>>

\* One property of the returned object is evaluated.
ComparePass ==
    /\ call.fn = "compareRankingMethods"
    /\ \E key \in call.pending :
          /\ results' = passOf(key, query, results).results
          /\ ret' = Returned(
                 [k \in (CompareKeys \ call.pending) \cup {key} |->
                     IF k = key THEN passOf(key, query, results).returned
                     ELSE ret.value[k]])
          /\ call' = [call EXCEPT !.pending = @ \ {key}]
    /\ UNCHANGED <<async, items, queryEmbedding, query, ranked>>

InitCompare ==
    /\ items = <<>>
    /\ queryEmbedding = <<>>
    /\ query = "database used project"
    /\ results \in CandidateListsFrom(Chunks, {-50000, 900000})
    /\ ranked = <<>>
    /\ call = Idle
    /\ ret = NoReturn
    /\ NoAsync

NextCompare ==
    \/ CompareRankingMethods
    \/ ComparePass

SpecCompare == InitCompare /\ [][NextCompare]_vars

\* C21: the harness and every pass leave the input list as it was passed, and
\* each list of the harness is the one rerankResults returns for that method
\* alone on the list as passed, in whatever order the passes are evaluated.
C21_InputUnchangedAndPassesIndependent ==
    call.fn = "compareRankingMethods" =>
        /\ results = call.given
        /\ \A key \in CompareKeys \ call.pending :
              ret.value[key] = rerankResults(query, call.given, MethodOfKey(key))

\* C21 witness: all four passes are done on two candidates that the keyword
\* pass returns in the other order, and the input is as passed.
C21_Witness ==
    /\ call.fn = "compareRankingMethods"
    /\ call.pending = {}
    /\ Len(call.given) = 2
    /\ results = call.given
    /\ ret.value["keyword"][1].id = call.given[2].id
    /\ ret.value["none"][1].id = call.given[1].id
    /\ call.given[1].score < call.given[2].score

---------------------------------------------------------------------------
(* Request handlers (src/unnamed/part_003, src/app/api/rag/compare/route.ts,*)
(* src/app/api/rag/rerank-compare/route.ts, src/app/api/chat/route.ts).    *)
(* A handler is one action: it draws the request body and what the        *)
(* environment does (index file, embedding model, LLM provider), records   *)
(* them in call, and leaves in ret the response with the calls it made to  *)
(* the retriever and to the LLM provider.                                  *)

\* What the environment does during one request: whether the index file
\* exists, whether generateEmbedding resolves, whether the provider answers,
\* and the provider getProviderConfig selects.
Env(index, embedding, llm, provider) ==
    [index |-> index, embedding |-> embedding, llm |-> llm, provider |-> provider]

Environments ==
    {Env(TRUE, TRUE, TRUE, "deepseek"), Env(TRUE, TRUE, TRUE, "anthropic"),
     Env(FALSE, TRUE, TRUE, "deepseek"), Env(TRUE, FALSE, TRUE, "deepseek"),
     Env(TRUE, TRUE, FALSE, "deepseek")}

\* Values of top_k and min_score a client may send: inside and outside the
\* documented ranges 1..100 and 0.0..1.0.
TopKRequests == {0, 5, 101}

MinScoreRequests == {300000, 1500000}

\* What a handler leaves: the response, the calls made to the retriever, the
\* requests sent to the LLM provider, and the candidate lists it worked on.
Outcome(status, body, retriever, llm, filtered, final) ==
    [status |-> status, body |-> body, retriever |-> retriever, llm |-> llm,
     filteredResults |-> filtered, finalResults |-> final]

\* A response sent before the retriever is called.
Rejected(status) == Outcome(status, [success |-> FALSE], <<>>, <<>>, <<>>, <<>>)

\* findMostSimilar(queryEmbedding, chunks, topK) followed by the filter on
\* score >= minScore, as the handler calls them.
RetrieverCalls(topK, minScore) ==
    << [fn |-> "findMostSimilar", topK |-> topK],
       [fn |-> "filter", minScore |-> minScore] >>

\* !query || typeof query !== 'string' || query.trim().length === 0
invalidQuery(queryText) == queryText = "" \/ Len(trim(queryText)) = 0

\* The user message of callDeepSeek and callClaude: the template with the
\* context when context is truthy, the question alone otherwise.  The template
\* is kept as its parts.
userMessage(question, context) ==
    IF context.defined /\ context.value # ""
    THEN << "Na osnove sleduyusego konteksta iz dokumentov, otvet na vopros.",
            "KONTEKST IZ DOKUMENTOV:", context.value,
            "VOPROS POLZOVATELYA:", question, "INSTRUKCII:" >>
    ELSE << question >>

NoContext == [defined |-> FALSE]

ContextOf(text) == [defined |-> TRUE, value |-> text]

defaultSystemPrompt == "Ty poleznyy AI-assistent. Otvecay tocno, strukturirovanno i po delu."

\* The parameters of askLLM.  conversationHistory is passed by the chat
\* handler; it is no member of LLMRequestParams.
LLMParams(question, context, conversationHistory, systemPrompt) ==
    [question |-> question, context |-> context,
     conversationHistory |-> conversationHistory, systemPrompt |-> systemPrompt]

\* callDeepSeek: messages = [system, user]
callDeepSeek(params) ==
    [provider |-> "deepseek",
     messages |->
         << [role |-> "system",
             content |-> << IF params.systemPrompt # "" THEN params.systemPrompt
                            ELSE defaultSystemPrompt >>],
            [role |-> "user",
             content |-> userMessage(params.question, params.context)] >>]

\* callClaude: system apart, messages = [user]
callClaude(params) ==
    [provider |-> "anthropic",
     system |-> IF params.systemPrompt # "" THEN params.systemPrompt
                ELSE defaultSystemPrompt,
     messages |->
         << [role |-> "user",
             content |-> userMessage(params.question, params.context)] >>]

\* askLLM: the request body sent to the selected provider.
askLLM(params, env) ==
    IF env.provider = "deepseek" THEN callDeepSeek(params) ELSE callClaude(params)

\* new Set(results.map(r => r.source)) as an array: the sources in the order
\* of their first result.
resultSources(rs) == sourcesInserted(rs)

(* POST /api/search *)

searchRespond(body, found) ==
    IF found.threw
    THEN Outcome(500, [success |-> FALSE],
                 <<[fn |-> "findMostSimilar", topK |-> body.top_k]>>, <<>>, <<>>, <<>>)
    ELSE Outcome(200,
                 [success |-> TRUE,
                  results |-> filterByMinScore(found.value, body.min_score),
                  stats |-> getSearchStats(filterByMinScore(found.value, body.min_score))],
                 RetrieverCalls(body.top_k, body.min_score), <<>>,
                 filterByMinScore(found.value, body.min_score),
                 filterByMinScore(found.value, body.min_score))

postSearch(queryText, body, its, qe, env) ==
    IF invalidQuery(queryText) THEN Rejected(400)
    ELSE IF body.top_k < 1 \/ body.top_k > 100 THEN Rejected(400)
    ELSE IF body.min_score < 0 \/ body.min_score > 1000000 THEN Rejected(400)
    ELSE IF ~env.index THEN Rejected(404)
    ELSE IF Len(its) = 0 THEN Rejected(400)
    ELSE IF ~env.embedding THEN Rejected(500)
    ELSE searchRespond(body, findMostSimilar(qe, its, body.top_k))

PostSearch ==
    /\ call.fn = "idle"
    /\ \E top_k \in TopKRequests, min_score \in MinScoreRequests,
          env \in Environments :
          /\ call' = [fn |-> "POST /api/search",
                      body |-> [top_k |-> top_k, min_score |-> min_score],
                      env |-> env]
          /\ ret' = Returned(postSearch(query, call'.body, items, queryEmbedding, env))
    /\ UNCHANGED <<async, items, queryEmbedding, query, results, ranked>>


(* The audit record of a rerank (src/unnamed/part_005, src/lib/rag.ts). *)

\* A number a division produced: NaN for 0 / 0, and a value otherwise.
NaN == [nan |-> TRUE]

NumberOf(value) == [nan |-> FALSE, value |-> value]

\* parseFloat((sum / count).toFixed(4)): NaN.toFixed(4) is "NaN", and
\* parseFloat("NaN") is NaN.
averageToFixed4(sum, count) ==
    IF count = 0 THEN NaN ELSE NumberOf(toFixed4(sum, count))

\* DEFAULT_RERANKER_CONFIG
DefaultRerankerConfig ==
    [min_similarity |-> 300000, min_rerank_score |-> 500000,
     top_k_for_rerank |-> 20, final_top_k |-> 5, rerank_method |-> "hybrid",
     quality_thresholds |-> [high |-> 700000, medium |-> 500000, low |-> 300000]]

\* { ...DEFAULT_RERANKER_CONFIG, ...rerank_config }: rerank_config is the
\* record of the fields the client sent.
mergeConfig(rerank_config) ==
    [k \in DOMAIN DefaultRerankerConfig |->
        IF k \in DOMAIN rerank_config THEN rerank_config[k]
        ELSE DefaultRerankerConfig[k]]

\* analyzeQuality: the counts per tier of rerank_score.
analyzeQuality(rs, thresholds) ==
    [high |-> Cardinality({i \in 1..Len(rs) : rs[i].rerank_score >= thresholds.high}),
     medium |-> Cardinality({i \in 1..Len(rs) :
                    /\ rs[i].rerank_score < thresholds.high
                    /\ rs[i].rerank_score >= thresholds.medium}),
     low |-> Cardinality({i \in 1..Len(rs) :
                    /\ rs[i].rerank_score < thresholds.medium
                    /\ rs[i].rerank_score >= thresholds.low})]

\* originalResults.find(or => or.id === id): the index of the first result
\* with this id, 0 when there is none.
findIndexById(originalResults, id) ==
    IF \E i \in 1..Len(originalResults) : originalResults[i].id = id
    THEN CHOOSE i \in 1..Len(originalResults) :
             /\ originalResults[i].id = id
             /\ \A j \in 1..(i - 1) : originalResults[j].id # id
    ELSE 0

\* rr.rerank_score - original.score for each reranked result, 0 when the
\* original is not found.
scoreImprovements(originalResults, rerankedResults) ==
    [i \in 1..Len(rerankedResults) |->
        IF findIndexById(originalResults, rerankedResults[i].id) = 0 THEN 0
        ELSE rerankedResults[i].rerank_score
                 - originalResults[findIndexById(originalResults,
                                                 rerankedResults[i].id)].score]

\* createRerankingStats; rerank_time_ms, a reading of the clock, is left out.
createRerankingStats(originalResults, rerankedResults, config) ==
    [original_results |->
         [i \in 1..Len(originalResults) |->
             [id |-> originalResults[i].id, score |-> originalResults[i].score,
              rank |-> i]],
     reranked_results |->
         [i \in 1..Len(rerankedResults) |->
             [id |-> rerankedResults[i].id, score |-> rerankedResults[i].score,
              rerank_score |-> rerankedResults[i].rerank_score, rank |-> i]],
     filtered_count |-> Len(originalResults) - Len(rerankedResults),
     avg_score_improvement |->
         averageToFixed4(Sum(scoreImprovements(originalResults, rerankedResults)),
                         Len(rerankedResults)),
     rerank_method |-> config.rerank_method,
     quality_distribution |->
         analyzeQuality(rerankedResults, config.quality_thresholds)]

\* rs[0]?.id
firstId(rs) ==
    IF Len(rs) = 0 THEN [defined |-> FALSE] ELSE [defined |-> TRUE, value |-> rs[1].id]

\* The distances |oldIdx - newIdx| of the reranked results found in the
\* original list.
positionChanges(originalResults, rerankedResults) ==
    LET Found(i) == findIndexById(originalResults, rerankedResults[i].id) # 0
        found == SelectSeq([i \in 1..Len(rerankedResults) |-> i], Found)
    IN  [k \in 1..Len(found) |->
            Abs(findIndexById(originalResults, rerankedResults[found[k]].id)
                    - found[k])]

\* analyzeRankingQuality; avg_position_change is in millionths, rounded to
\* two decimals.
analyzeRankingQuality(originalResults, rerankedResults) ==
    [improvement |->
         averageToFixed4(Sum(scoreImprovements(originalResults, rerankedResults)),
                         Len(rerankedResults)),
     top_changed |-> firstId(originalResults) # firstId(rerankedResults),
     avg_position_change |->
         IF Len(positionChanges(originalResults, rerankedResults)) = 0 THEN 0
         ELSE 10000 * RoundHalfAway(
                  100 * Sum(positionChanges(originalResults, rerankedResults)),
                  Len(positionChanges(originalResults, rerankedResults)))]


(* POST /api/rag *)

\* Values of rerank_config a client may send: nothing; a keyword pass with a
\* high threshold and one final result; no rerank with the threshold 0 and a
\* wide candidate pull.
RerankConfigs ==
    { <<>>,
      [rerank_method |-> "keyword-boost", min_rerank_score |-> 900000,
       final_top_k |-> 1],
      [rerank_method |-> "none", min_rerank_score |-> 0,
       top_k_for_rerank |-> 200] }

\* rerank_config?.top_k_for_rerank || fallback
topKForRerank(rerank_config, fallback) ==
    IF "top_k_for_rerank" \in DOMAIN rerank_config
          /\ rerank_config.top_k_for_rerank # 0
    THEN rerank_config.top_k_for_rerank
    ELSE fallback

\* Step 5 and the response: the request to the LLM with the context, then
\* success with rag_info, or 500 when askClaude throws.
ragGenerate(queryText, body, filtered, final, context, rerankingInfo, env, retriever) ==
    IF ~env.llm
    THEN Outcome(500, [success |-> FALSE], retriever,
                 <<askLLM(LLMParams(queryText, ContextOf(context), <<>>, ""), env)>>,
                 filtered, final)
    ELSE Outcome(200,
                 [success |-> TRUE, mode |-> "with_rag",
                  reranking_enabled |-> body.rerank,
                  rag_info |-> [sources |-> resultSources(final),
                                total_chunks |-> Len(final),
                                context_quality |-> evaluateContextQuality(final),
                                reranking |-> rerankingInfo]],
                 retriever,
                 <<askLLM(LLMParams(queryText, ContextOf(context), <<>>, ""), env)>>,
                 filtered, final)

\* Step 3 with reranking: the statistics and the context of the final list.
ragReranked(queryText, body, filtered, final, config, env, retriever) ==
    ragGenerate(queryText, body, filtered, final,
                prepareContextWithReranking(final, queryText, 8000),
                <<[stats |-> createRerankingStats(filtered, final, config),
                   quality_analysis |-> analyzeRankingQuality(filtered, final)]>>,
                env, retriever)

\* The same steps without the filter on min_rerank_score.
ragFilteredWithoutQualityFilter(queryText, body, filtered, env, retriever) ==
    IF Len(filtered) = 0
    THEN Outcome(404, [success |-> FALSE], retriever, <<>>, filtered, <<>>)
    ELSE IF body.rerank
    THEN ragReranked(queryText, body, filtered,
                     getTopRanked(
                         rerankResults(queryText, filtered,
                                       mergeConfig(body.rerank_config).rerank_method),
                         mergeConfig(body.rerank_config).final_top_k, NoMinScore),
                     mergeConfig(body.rerank_config), env, retriever)
    ELSE ragGenerate(queryText, body, filtered, filtered,
                     prepareContextWithLimit(filtered, 8000), <<>>, env, retriever)

\* From the filtered results on: 404 when none is left, then the rerank when
\* it is enabled.
ragFiltered(queryText, body, filtered, env, retriever) ==
    IF Len(filtered) = 0
    THEN Outcome(404, [success |-> FALSE], retriever, <<>>, filtered, <<>>)
    ELSE IF body.rerank
    THEN ragReranked(queryText, body, filtered,
                     getTopRanked(
                         filterByQuality(
                             rerankResults(queryText, filtered,
                                           mergeConfig(body.rerank_config).rerank_method),
                             mergeConfig(body.rerank_config).min_rerank_score),
                         mergeConfig(body.rerank_config).final_top_k, NoMinScore),
                     mergeConfig(body.rerank_config), env, retriever)
    ELSE ragGenerate(queryText, body, filtered, filtered,
                     prepareContextWithLimit(filtered, 8000), <<>>, env, retriever)

ragSearched(queryText, body, found, searchTopK, env) ==
    IF found.threw
    THEN Outcome(500, [success |-> FALSE],
                 <<[fn |-> "findMostSimilar", topK |-> searchTopK]>>, <<>>, <<>>, <<>>)
    ELSE ragFiltered(queryText, body, filterByMinScore(found.value, body.min_score),
                     env, RetrieverCalls(searchTopK, body.min_score))

\* The mode without RAG: the question alone goes to the LLM.
ragWithoutRAG(queryText, body, env) ==
    Outcome(IF env.llm THEN 200 ELSE 500,
            IF env.llm
            THEN [success |-> TRUE, mode |-> "without_rag",
                  reranking_enabled |-> body.rerank]
            ELSE [success |-> FALSE],
            <<>>, <<askLLM(LLMParams(queryText, NoContext, <<>>, ""), env)>>,
            <<>>, <<>>)

postRag(queryText, body, its, qe, env) ==
    IF invalidQuery(queryText) THEN Rejected(400)
    ELSE IF ~body.useRAG THEN ragWithoutRAG(queryText, body, env)
    ELSE IF ~env.index THEN Rejected(404)
    ELSE IF Len(its) = 0 THEN Rejected(400)
    ELSE IF ~env.embedding THEN Rejected(500)
    ELSE ragSearched(queryText, body,
                     findMostSimilar(qe, its,
                         IF body.rerank THEN topKForRerank(body.rerank_config, 20)
                         ELSE body.top_k),
                     IF body.rerank THEN topKForRerank(body.rerank_config, 20)
                     ELSE body.top_k,
                     env)

PostRag ==
    /\ call.fn = "idle"
    /\ \E useRAG \in BOOLEAN, rerank \in BOOLEAN, top_k \in TopKRequests,
          min_score \in MinScoreRequests, rerank_config \in RerankConfigs,
          env \in Environments :
          /\ call' = [fn |-> "POST /api/rag",
                      body |-> [useRAG |-> useRAG, rerank |-> rerank,
                                top_k |-> top_k, min_score |-> min_score,
                                rerank_config |-> rerank_config],
                      env |-> env]
          /\ ret' = Returned(postRag(query, call'.body, items, queryEmbedding, env))
    /\ UNCHANGED <<async, items, queryEmbedding, query, results, ranked>>

(* POST /api/rag/rerank-compare *)

\* The average of rerank_score over one list of the comparison.
averageRerankScore(rs) ==
    IF Len(rs) = 0 THEN NaN
    ELSE NumberOf([num |-> Sum(RerankScores(rs)), den |-> Len(rs)])

rerankCompareRespond(queryText, body, filtered) ==
    IF Len(filtered) = 0
    THEN Outcome(404, [success |-> FALSE],
                 RetrieverCalls(body.top_k, body.min_score), <<>>, filtered, <<>>)
    ELSE Outcome(200,
                 [success |-> TRUE,
                  analysis |->
                      [key \in CompareKeys |->
                          [results |-> Slice(passOf(key, queryText, filtered).returned, 5),
                           quality |-> analyzeQuality(
                               passOf(key, queryText, filtered).returned,
                               DefaultRerankerConfig.quality_thresholds),
                           avg_score |-> averageRerankScore(
                               passOf(key, queryText, filtered).returned)]],
                  total_results |-> Len(filtered)],
                 RetrieverCalls(body.top_k, body.min_score), <<>>, filtered, filtered)

rerankCompareSearched(queryText, body, found) ==
    IF found.threw
    THEN Outcome(500, [success |-> FALSE],
                 <<[fn |-> "findMostSimilar", topK |-> body.top_k]>>, <<>>, <<>>, <<>>)
    ELSE rerankCompareRespond(queryText, body,
                              filterByMinScore(found.value, body.min_score))

\* The index file is read without a test that it exists: readFile throws and
\* the catch answers 500.
postRerankCompare(queryText, body, its, qe, env) ==
    IF queryText = "" THEN Rejected(400)
    ELSE IF ~env.index THEN Rejected(500)
    ELSE IF ~env.embedding THEN Rejected(500)
    ELSE rerankCompareSearched(queryText, body, findMostSimilar(qe, its, body.top_k))

PostRerankCompare ==
    /\ call.fn = "idle"
    /\ \E top_k \in TopKRequests, min_score \in MinScoreRequests,
          env \in Environments :
          /\ call' = [fn |-> "POST /api/rag/rerank-compare",
                      body |-> [top_k |-> top_k, min_score |-> min_score],
                      env |-> env]
          /\ ret' = Returned(postRerankCompare(query, call'.body, items,
                                               queryEmbedding, env))
    /\ UNCHANGED <<async, items, queryEmbedding, query, results, ranked>>


(* POST /api/chat *)

\* Lengths of the history a client sends: none, fewer than six, more than six.
HistoryLengths == {0, 2, 7}

\* A dialogue of n messages, user and assistant in turn.
HistoryOf(n) ==
    [i \in 1..n |->
        [role |-> IF i % 2 = 1 THEN "user" ELSE "assistant",
         content |-> "m" \o NatToString(i)]]

Histories == {HistoryOf(n) : n \in HistoryLengths}

\* seq.slice(-n) for n > 0: the last n elements
sliceLast(seq, n) == SubSeq(seq, Max(1, Len(seq) - n + 1), Len(seq))

historyPrompt == "Ty poleznyy assistent. Otvecay na osnove istorii dialoga."

documentsPrompt ==
    "Ty poleznyy assistent, otvecayusiy na voprosy na osnove dokumentov i istorii dialoga."

\* The LLM call and the response of the chat handler.  rag_info is attached
\* when sources is truthy, which the object extractSourcesInfo returns always
\* is.
chatGenerate(body, params, withSources, rerankingInfo, env, retriever, filtered, final) ==
    IF ~env.llm
    THEN Outcome(500, [success |-> FALSE], retriever, <<askLLM(params, env)>>,
                 filtered, final)
    ELSE Outcome(200,
                 IF withSources
                 THEN [success |-> TRUE,
                       sources |-> resultSources(final),
                       history_length |-> Len(body.history),
                       mode |-> IF body.useRAG THEN "with_rag" ELSE "without_rag",
                       reranking_enabled |-> body.useReranking,
                       rag_info |-> [total_found |-> Len(final),
                                     context_quality |-> evaluateContextQuality(final),
                                     reranking |-> rerankingInfo]]
                 ELSE [success |-> TRUE,
                       history_length |-> Len(body.history),
                       mode |-> IF body.useRAG THEN "with_rag" ELSE "without_rag",
                       reranking_enabled |-> body.useReranking],
                 retriever, <<askLLM(params, env)>>, filtered, final)

\* With relevant documents: context of the final list, the last six messages
\* of the history, the prompt about documents.
chatWithDocuments(message, body, filtered, final, rerankingInfo, env, retriever) ==
    chatGenerate(body,
                 LLMParams(message, ContextOf(prepareContextWithLimit(final, 6000)),
                           sliceLast(body.history, 6), documentsPrompt),
                 TRUE, rerankingInfo, env, retriever, filtered, final)

chatReranked(message, body, filtered, final, config, env, retriever) ==
    chatWithDocuments(message, body, filtered, final,
                      <<createRerankingStats(filtered, final, config)>>,
                      env, retriever)

chatFiltered(message, body, filtered, env, retriever) ==
    IF Len(filtered) = 0
    THEN chatGenerate(body,
                      LLMParams(message, NoContext, body.history, historyPrompt),
                      FALSE, <<>>, env, retriever, filtered, <<>>)
    ELSE IF body.useReranking
    THEN chatReranked(message, body, filtered,
                      getTopRanked(
                          filterByQuality(
                              rerankResults(message, filtered,
                                            mergeConfig(body.rerank_config).rerank_method),
                              mergeConfig(body.rerank_config).min_rerank_score),
                          mergeConfig(body.rerank_config).final_top_k, NoMinScore),
                      mergeConfig(body.rerank_config), env, retriever)
    ELSE chatWithDocuments(message, body, filtered, filtered, <<>>, env, retriever)

chatSearched(message, body, found, searchTopK, env) ==
    IF found.threw
    THEN Outcome(500, [success |-> FALSE],
                 <<[fn |-> "findMostSimilar", topK |-> searchTopK]>>, <<>>, <<>>, <<>>)
    ELSE chatFiltered(message, body, filterByMinScore(found.value, 300000), env,
                      RetrieverCalls(searchTopK, 300000))

postChat(message, body, its, qe, env) ==
    IF invalidQuery(message) THEN Rejected(400)
    ELSE IF ~body.useRAG
    THEN chatGenerate(body,
                      LLMParams(message, NoContext, sliceLast(body.history, 6),
                                historyPrompt),
                      FALSE, <<>>, env, <<>>, <<>>, <<>>)
    ELSE IF ~env.index THEN Rejected(404)
    ELSE IF Len(its) = 0 THEN Rejected(400)
    ELSE IF ~env.embedding THEN Rejected(500)
    ELSE chatSearched(message, body,
                      findMostSimilar(qe, its,
                          IF body.useReranking
                          THEN topKForRerank(body.rerank_config, 15) ELSE 5),
                      IF body.useReranking
                      THEN topKForRerank(body.rerank_config, 15) ELSE 5,
                      env)

PostChat ==
    /\ call.fn = "idle"
    /\ \E history \in Histories, useRAG \in BOOLEAN, useReranking \in BOOLEAN,
          rerank_config \in RerankConfigs, env \in Environments :
          /\ call' = [fn |-> "POST /api/chat",
                      body |-> [history |-> history, useRAG |-> useRAG,
                                useReranking |-> useReranking,
                                rerank_config |-> rerank_config],
                      env |-> env]
          /\ ret' = Returned(postChat(query, call'.body, items, queryEmbedding, env))
    /\ UNCHANGED <<async, items, queryEmbedding, query, results, ranked>>

(* The handlers on an index. *)

\* Embeddings of the indexed chunks and of the query.
HandlerEmbeddings == {<<1000, 0>>, <<600, 800>>}

HandlerQueryEmbeddings == {<<1000, 0>>, <<0, 1000>>}

\* An index of the first n ingested chunks.
HandlerIndexes ==
    UNION { { [i \in 1..n |->
                  [id |-> Chunks[i].id, text |-> Chunks[i].text,
                   source |-> Chunks[i].source, embedding |-> e[i],
                   metadata |-> Chunks[i].metadata]] :
              e \in [1..n -> HandlerEmbeddings] } :
            n \in 0..Min(MaxResults, Len(Chunks)) }

InitHandlers ==
    /\ items \in HandlerIndexes
    /\ queryEmbedding \in HandlerQueryEmbeddings
    /\ query = "database used project"
    /\ results = <<>>
    /\ ranked = <<>>
    /\ call = Idle
    /\ ret = NoReturn
    /\ NoAsync

NextRetrieving ==
    \/ PostSearch
    \/ PostRag
    \/ PostRerankCompare

SpecRetrieving == InitHandlers /\ [][NextRetrieving]_vars

NextAnswering ==
    \/ PostRag
    \/ PostChat

SpecAnswering == InitHandlers /\ [][NextAnswering]_vars

\* The calls to findMostSimilar and to the score filter a handler made.
TopKInRange(c) == c.fn = "findMostSimilar" => c.topK \in 1..100

MinScoreInRange(c) == c.fn = "filter" => (c.minScore >= 0 /\ c.minScore <= 1000000)

Handled(fns) == call.fn \in fns

\* C22: every handler that invokes the retriever rejects a request whose
\* top_k is outside 1..100 or whose min_score is outside 0.0..1.0 before
\* invoking it: findMostSimilar and the score filter are only called with
\* values inside those ranges.
C22_RetrieverCalledInRange ==
    Handled({"POST /api/search", "POST /api/rag", "POST /api/rag/rerank-compare"}) =>
        \A i \in 1..Len(ret.value.retriever) :
            /\ TopKInRange(ret.value.retriever[i])
            /\ MinScoreInRange(ret.value.retriever[i])

\* C22 holds of POST /api/search, the handler that validates.
C22_SearchValidates ==
    Handled({"POST /api/search"}) =>
        /\ \A i \in 1..Len(ret.value.retriever) :
              /\ TopKInRange(ret.value.retriever[i])
              /\ MinScoreInRange(ret.value.retriever[i])
        /\ (call.body.top_k \notin 1..100 \/ call.body.min_score > 1000000)
              => ret.value.status = 400 /\ ret.value.retriever = <<>>


\* The request carries the prompt built around a context from the documents.
DocumentContextPrompt(request) ==
    \E i \in 1..Len(request.messages) :
        /\ request.messages[i].role = "user"
        /\ Len(request.messages[i].content) > 1

\* The handler reranked and the quality filter left nothing of a non-empty
\* list of candidates.
RerankLeftNothing ==
    /\ \/ Handled({"POST /api/rag"}) /\ call.body.useRAG /\ call.body.rerank
       \/ Handled({"POST /api/chat"}) /\ call.body.useRAG /\ call.body.useReranking
    /\ Len(ret.value.filteredResults) > 0
    /\ Len(ret.value.finalResults) = 0

\* The similarity threshold left nothing.
SimilarityLeftNothing ==
    /\ Handled({"POST /api/rag", "POST /api/chat"})
    /\ Len(ret.value.retriever) = 2
    /\ Len(ret.value.filteredResults) = 0

\* The outcome of no relevant results: POST /api/rag answers 404 and calls no
\* LLM; POST /api/chat answers from the history, with a prompt without
\* document context and without rag_info.
NoRelevantResultsOutcome ==
    /\ \A i \in 1..Len(ret.value.llm) : ~DocumentContextPrompt(ret.value.llm[i])
    /\ Handled({"POST /api/rag"}) => ret.value.status = 404 /\ ret.value.llm = <<>>
    /\ Handled({"POST /api/chat"}) /\ ret.value.status = 200
          => "rag_info" \notin DOMAIN ret.value.body

\* The similarity threshold leaving nothing gives the no-relevant-results
\* outcome.
C23_SimilarityCase == SimilarityLeftNothing => NoRelevantResultsOutcome

\* C23: when the rerank quality filter leaves zero results the request takes
\* the same no-relevant-results outcome as when the similarity threshold
\* leaves zero results, and the generator is not called with a
\* document-context prompt.
C23_RerankEmptyIsNoRelevantResults == RerankLeftNothing => NoRelevantResultsOutcome

\* A message of the history as it would stand in the list sent to the
\* provider.
HistoryMessage(h) == [role |-> h.role, content |-> <<h.content>>]

\* The messages of a request that are messages of the history of the call.
SentHistory(request) ==
    LET FromHistory(m) ==
            \E i \in 1..Len(call.body.history) :
                m = HistoryMessage(call.body.history[i])
    IN  SelectSeq(request.messages, FromHistory)

\* The most recent min(6, |history|) messages of the history, in order.
RecentHistory ==
    [i \in 1..Min(6, Len(call.body.history)) |->
        HistoryMessage(sliceLast(call.body.history, 6)[i])]

\* C25: for a POST /api/chat request with a non-empty history, in every branch
\* the message list sent to the LLM provider contains the most recent
\* min(6, |history|) history messages in order and no older history message.
C25_RecentHistorySent ==
    (Handled({"POST /api/chat"}) /\ Len(call.body.history) > 0) =>
        \A i \in 1..Len(ret.value.llm) :
            SentHistory(ret.value.llm[i]) = RecentHistory

\* The handler ran retrieve, similarity filter, rerankResults, filterByQuality
\* and getTopRanked.
RerankPipelineRan ==
    /\ \/ Handled({"POST /api/rag"}) /\ call.body.useRAG /\ call.body.rerank
       \/ Handled({"POST /api/chat"}) /\ call.body.useRAG /\ call.body.useReranking
    /\ Len(ret.value.filteredResults) > 0

RerankingReported ==
    /\ Handled({"POST /api/rag"})
    /\ ret.value.status = 200
    /\ call.body.useRAG
    /\ call.body.rerank

\* The mean of rerank_score - score over the final list, to four decimals.
MeanImprovement(rs) ==
    toFixed4(Sum([i \in 1..Len(rs) |-> rs[i].rerank_score - rs[i].score]), Len(rs))

\* C29: for every pair of original and reranked lists, including an empty
\* reranked list as produced when the rerank filter removes every candidate,
\* createRerankingStats returns a numeric avg_score_improvement (the mean of
\* rerank_score - score over the reranked items, 0 when there are none) and a
\* filtered_count equal to |original| - |reranked|.
C29_StatsWellDefined ==
    RerankingReported =>
        LET stats == ret.value.body.rag_info.reranking[1].stats
        IN  /\ stats.filtered_count =
                   Len(ret.value.filteredResults) - Len(ret.value.finalResults)
            /\ ~stats.avg_score_improvement.nan
            /\ stats.avg_score_improvement.value =
                   (IF Len(ret.value.finalResults) = 0 THEN 0
                    ELSE MeanImprovement(ret.value.finalResults))

\* The statistics of a non-empty reranked list are as C29 says.
C29_NonEmptyCase ==
    (RerankingReported /\ Len(ret.value.finalResults) > 0) =>
        LET stats == ret.value.body.rag_info.reranking[1].stats
        IN  /\ stats.filtered_count =
                   Len(ret.value.filteredResults) - Len(ret.value.finalResults)
            /\ stats.avg_score_improvement =
                   NumberOf(MeanImprovement(ret.value.finalResults))

---------------------------------------------------------------------------
(* Embedding model (src/unnamed/part_006): generateEmbedding calls running *)
(* concurrently in one process.  A call runs without interruption up to    *)
(* its next await; what it awaits resolves or rejects in a later step.     *)

\* A call of generateEmbedding in flight: its position, the model instance
\* whose construction it awaits (0: none), and the instance it got from
\* getEmbeddingPipeline (0: none yet).
Task(pc, loading, pipe) == [pc |-> pc, loading |-> loading, pipe |-> pipe]

\* The call is made.  An empty text throws at once.  Otherwise the body runs
\* into getEmbeddingPipeline: with the cache empty it calls pipeline(...), a
\* new construction, and awaits it; with the cache set it returns the cached
\* instance.
GenerateEmbedding ==
    /\ Len(tasks) < MaxCalls
    /\ \E text \in {"", query} :
          IF text = "" \/ Len(trim(text)) = 0
          THEN /\ tasks' = Append(tasks, Task("rejected", 0, 0))
               /\ UNCHANGED <<embeddingPipeline, constructed>>
          ELSE IF embeddingPipeline = Null
          THEN /\ constructed' = constructed + 1
               /\ tasks' = Append(tasks, Task("loading", constructed + 1, 0))
               /\ UNCHANGED embeddingPipeline
          ELSE /\ tasks' = Append(tasks, Task("resolved", 0, embeddingPipeline))
               /\ UNCHANGED <<embeddingPipeline, constructed>>
    /\ UNCHANGED <<items, queryEmbedding, query, results, ranked, call, ret>>

\* The awaited pipeline(...) resolves: the instance is stored in the cache and
\* returned.
PipelineResolves ==
    /\ \E c \in 1..Len(tasks) :
          /\ tasks[c].pc = "loading"
          /\ embeddingPipeline' = tasks[c].loading
          /\ tasks' = [tasks EXCEPT ![c] = Task("resolved", 0, tasks[c].loading)]
    /\ UNCHANGED <<items, queryEmbedding, query, results, ranked, call, ret,
                   constructed>>

\* The awaited pipeline(...) rejects: the call throws, the cache stays as it
\* is.
PipelineRejects ==
    /\ \E c \in 1..Len(tasks) :
          /\ tasks[c].pc = "loading"
          /\ tasks' = [tasks EXCEPT ![c] = Task("rejected", 0, 0)]
    /\ UNCHANGED <<items, queryEmbedding, query, results, ranked, call, ret,
                   embeddingPipeline, constructed>>

\* pipe(text, ...) resolves and the normalized vector is returned.
EmbeddingResolves ==
    /\ \E c \in 1..Len(tasks) :
          /\ tasks[c].pc = "resolved"
          /\ tasks' = [tasks EXCEPT ![c].pc = "returned"]
    /\ UNCHANGED <<items, queryEmbedding, query, results, ranked, call, ret,
                   embeddingPipeline, constructed>>

\* pipe(text, ...) rejects and the call throws.
EmbeddingRejects ==
    /\ \E c \in 1..Len(tasks) :
          /\ tasks[c].pc = "resolved"
          /\ tasks' = [tasks EXCEPT ![c].pc = "rejected"]
    /\ UNCHANGED <<items, queryEmbedding, query, results, ranked, call, ret,
                   embeddingPipeline, constructed>>

InitEmbedding ==
    /\ items = <<>>
    /\ queryEmbedding = <<>>
    /\ query = "database used project"
    /\ results = <<>>
    /\ ranked = <<>>
    /\ call = Idle
    /\ ret = NoReturn
    /\ embeddingPipeline = Null
    /\ constructed = 0
    /\ tasks = <<>>

NextEmbedding ==
    \/ GenerateEmbedding
    \/ PipelineResolves
    \/ PipelineRejects
    \/ EmbeddingResolves
    \/ EmbeddingRejects

SpecEmbedding == InitEmbedding /\ [][NextEmbedding]_vars

\* The model instances the calls got from getEmbeddingPipeline.
PipesUsed == {tasks[c].pipe : c \in 1..Len(tasks)} \ {0}

\* C27: under any interleaving of concurrent generateEmbedding calls,
\* including calls that start before the first load has completed, the model
\* pipeline is constructed at most once and every call uses that single
\* cached instance.
C27_PipelineConstructedOnce ==
    /\ constructed <= 1
    /\ Cardinality(PipesUsed) <= 1
    /\ PipesUsed \subseteq {embeddingPipeline}

\* Calls that do not overlap the first load: once a load has completed, every
\* later call uses the cached instance and constructs nothing.
C27_SequentialCallsShareThePipeline ==
    [][(embeddingPipeline # Null) =>
           (constructed' = constructed /\ embeddingPipeline' \in 1..constructed)]_vars

---------------------------------------------------------------------------
(* POST /api/rag/compare (src/app/api/rag/compare/route.ts): the branch     *)
(* with RAG and the branch without run concurrently under                  *)
(* Promise.allSettled.  A branch runs without interruption up to its next  *)
(* await; the awaited embedding or LLM call resolves or rejects in a later *)
(* step, in any order across the two branches.                             *)

\* A branch in flight: its position ("embedding", "llm" or "settled"), how its
\* embedding and LLM calls ended ("none": not made, "pending", "ok",
\* "failed"), the request it sent to the LLM, and the value its promise
\* settled with.
Branch(pc, embedding, llm, request, result) ==
    [pc |-> pc, embedding |-> embedding, llm |-> llm, request |-> request,
     result |-> result]

\* return { success: false, error: error.message }
BranchFailure(error) == [success |-> FALSE, error |-> error]

\* The text the model answers with.
Answer == "answer"

\* The value of the branch with RAG when its LLM call resolves.
withRAGSuccess(filtered) ==
    [success |-> TRUE, answer |-> Answer,
     sources |-> resultSources(filtered), total_chunks |-> Len(filtered),
     context_quality |-> evaluateContextQuality(filtered)]

\* The value of the branch without RAG when its LLM call resolves.
withoutRAGSuccess == [success |-> TRUE, answer |-> Answer]

\* The branch with RAG after its embedding resolved, up to await askClaude: a
\* throw of findMostSimilar or an empty filtered list settles it as a failure.
withRAGSearched(queryText, body, found, b) ==
    IF found.threw
    THEN Branch("settled", "ok", "none", <<>>, BranchFailure("dimension mismatch"))
    ELSE IF Len(filterByMinScore(found.value, body.min_score)) = 0
    THEN Branch("settled", "ok", "none", <<>>,
                BranchFailure("Ne naydeno relevantnyh dokumentov"))
    ELSE Branch("llm", "ok", "pending",
                <<LLMParams(queryText,
                            ContextOf(prepareContextWithLimit(
                                filterByMinScore(found.value, body.min_score), 8000)),
                            <<>>, "")>>,
                withRAGSuccess(filterByMinScore(found.value, body.min_score)))

\* withRAG?.answer
answerOf(result) ==
    IF result.success THEN [defined |-> TRUE, value |-> result.answer]
    ELSE [defined |-> FALSE]

\* A response that fails the request as soon as one branch failed.
compareRespondFailFast(withRAG, withoutRAG) ==
    IF withRAG.success /\ withoutRAG.success
    THEN Outcome(200,
                 [success |-> TRUE,
                  results |-> [with_rag |-> withRAG, without_rag |-> withoutRAG],
                  comparison |-> [both_successful |-> TRUE,
                                  answers_differ |-> answerOf(withRAG) # answerOf(withoutRAG)]],
                 <<>>, <<>>, <<>>, <<>>)
    ELSE Rejected(500)

\* The response once both promises are settled: success true with the value
\* of each branch.
compareRespond(withRAG, withoutRAG) ==
    Outcome(200,
            [success |-> TRUE,
             results |-> [with_rag |-> withRAG, without_rag |-> withoutRAG],
             comparison |->
                 [both_successful |-> withRAG.success /\ withoutRAG.success,
                  answers_differ |-> answerOf(withRAG) # answerOf(withoutRAG)]],
            <<>>, <<>>, <<>>, <<>>)

\* The request arrives.  An invalid query or a missing index file is answered
\* at once; otherwise the index is loaded and both branches start: the first
\* runs to await generateEmbedding, the second to await askClaude.
PostRagCompare ==
    /\ call.fn = "idle"
    /\ \E top_k \in TopKRequests, min_score \in MinScoreRequests,
          indexExists \in BOOLEAN :
          /\ call' = [fn |-> "POST /api/rag/compare",
                      body |-> [top_k |-> top_k, min_score |-> min_score],
                      indexExists |-> indexExists, responded |-> ~indexExists]
          /\ IF invalidQuery(query) THEN ret' = Returned(Rejected(400)) /\ tasks' = <<>>
             ELSE IF ~indexExists THEN ret' = Returned(Rejected(404)) /\ tasks' = <<>>
             ELSE /\ ret' = NoReturn
                  /\ tasks' =
                         << Branch("embedding", "pending", "none", <<>>, <<>>),
                            Branch("llm", "none", "pending",
                                   <<LLMParams(query, NoContext, <<>>, "")>>,
                                   withoutRAGSuccess) >>
    /\ UNCHANGED <<items, queryEmbedding, query, results, ranked,
                   embeddingPipeline, constructed>>

\* generateEmbedding settles in the branch with RAG: on a rejection the catch
\* settles the branch; on a vector the branch searches and goes on to the LLM.
CompareEmbeddingSettles ==
    /\ call.fn = "POST /api/rag/compare"
    /\ Len(tasks) = 2
    /\ tasks[1].pc = "embedding"
    /\ \E ok \in BOOLEAN :
          tasks' = [tasks EXCEPT ![1] =
              IF ok
              THEN withRAGSearched(query, call.body,
                                   findMostSimilar(queryEmbedding, items, call.body.top_k),
                                   tasks[1])
              ELSE Branch("settled", "failed", "none", <<>>,
                          BranchFailure("Ne udalos sgenerirovat embedding"))]
    /\ UNCHANGED <<items, queryEmbedding, query, results, ranked, call, ret,
                   embeddingPipeline, constructed>>

\* askClaude settles in one of the branches: the value prepared for success,
\* or the failure of the catch.
CompareLLMSettles ==
    /\ call.fn = "POST /api/rag/compare"
    /\ \E b \in 1..Len(tasks), ok \in BOOLEAN :
          /\ tasks[b].pc = "llm"
          /\ tasks' = [tasks EXCEPT ![b] =
                 Branch("settled", tasks[b].embedding,
                        IF ok THEN "ok" ELSE "failed", tasks[b].request,
                        IF ok THEN tasks[b].result
                        ELSE BranchFailure("Ne udalos polucit otvet ot LLM"))]
    /\ UNCHANGED <<items, queryEmbedding, query, results, ranked, call, ret,
                   embeddingPipeline, constructed>>

\* Promise.allSettled resolves when both branches are settled, and the
\* handler responds.
CompareResponds ==
    /\ call.fn = "POST /api/rag/compare"
    /\ ~call.responded
    /\ Len(tasks) = 2
    /\ \A b \in 1..2 : tasks[b].pc = "settled"
    /\ ret' = Returned(compareRespond(tasks[1].result, tasks[2].result))
    /\ call' = [call EXCEPT !.responded = TRUE]
    /\ UNCHANGED <<items, queryEmbedding, query, results, ranked, async>>

NextComparing ==
    \/ PostRagCompare
    \/ CompareEmbeddingSettles
    \/ CompareLLMSettles
    \/ CompareResponds

SpecComparing == InitHandlers /\ [][NextComparing]_vars

\* The handler answered a request whose branches ran.
CompareAnswered ==
    /\ call.fn = "POST /api/rag/compare"
    /\ call.responded
    /\ Len(tasks) = 2

\* C28: once the index is loaded, for every interleaving and every combination
\* of success or failure of the embedding and LLM calls the handler responds
\* with success true carrying each branch's own outcome: a branch's result is
\* a failure exactly when one of its own calls failed or its own search found
\* nothing, whatever happened in the other branch, and the handler does not
\* respond before both branches are settled.
C28_BranchesIndependent ==
    /\ (call.fn = "POST /api/rag/compare" /\ Len(tasks) = 2 /\ ~call.responded)
          => ret = NoReturn
    /\ CompareAnswered =>
          /\ ret.value.status = 200
          /\ ret.value.body.success
          /\ ret.value.body.results.with_rag = tasks[1].result
          /\ ret.value.body.results.without_rag = tasks[2].result
          /\ tasks[1].result.success
                <=> (tasks[1].embedding = "ok" /\ tasks[1].llm = "ok")
          /\ tasks[2].result.success <=> tasks[2].llm = "ok"
          /\ ~tasks[1].result.success => "error" \in DOMAIN tasks[1].result
          /\ ~tasks[2].result.success => "error" \in DOMAIN tasks[2].result

\* C28 witness: the embedding of the branch with RAG failed, the LLM call of
\* the branch without RAG succeeded, and the response carries both.
C28_Witness ==
    /\ CompareAnswered
    /\ tasks[1].embedding = "failed"
    /\ tasks[2].llm = "ok"
    /\ ret.value.status = 200
    /\ ~ret.value.body.results.with_rag.success
    /\ ret.value.body.results.without_rag.success

---------------------------------------------------------------------------
(* The quality of a reranked list: evaluateContextQuality(finalResults) as *)
(* the handlers call it after the rerank.                                  *)

EvaluateRankedContextQuality ==
    /\ call.fn = "rerankResults"
    /\ call' = [fn |-> "evaluateContextQuality", of |-> "ranked"]
    /\ ret' = Returned(evaluateContextQuality(ranked))
    /\ UNCHANGED <<async, items, queryEmbedding, query, results, ranked>>

NextRankedQuality ==
    \/ RerankResults
    \/ EvaluateRankedContextQuality

SpecRankedQuality == InitTopRanked /\ [][NextRankedQuality]_vars

\* Values another rerank could have given the rerank fields.
OtherRerankScores == {0, 1000000}

OtherRerankMethods == {"none", "hybrid"}

OtherBoostReasons == {"", "pervyy chunk"}

\* The list with the same candidates and scores and other rerank fields.
Relabelled(rs, rerank_scores, rerank_method, boost_reason) ==
    [i \in 1..Len(rs) |->
        RankedResultOf(SearchResultFields(rs[i]), rerank_scores[i], rerank_method,
                       rs[i].original_rank, boost_reason)]

\* C30: the tier and confidence evaluateContextQuality returns for a reranked
\* list depend only on the score fields: every list that agrees with it on
\* every score and differs in rerank_score, rerank_method or boost_reason
\* receives the same assessment.
C30_QualityIgnoresRerankFields ==
    (call.fn = "evaluateContextQuality" /\ call.of = "ranked") =>
        \A rerank_scores \in [1..Len(ranked) -> OtherRerankScores],
           rerank_method \in OtherRerankMethods,
           boost_reason \in OtherBoostReasons :
            evaluateContextQuality(
                Relabelled(ranked, rerank_scores, rerank_method, boost_reason))
              = ret.value

\* C30 witness: a reranked list whose rerank scores would give another tier
\* than its scores, assessed by its scores.
C30_Witness ==
    /\ call.fn = "evaluateContextQuality"
    /\ call.of = "ranked"
    /\ Len(ranked) = 2
    /\ \E i \in 1..2 : ranked[i].rerank_score # ranked[i].score
    /\ ret.value.quality = "medium"
    /\ evaluateContextQualityOfRerankScore(ranked).quality # "medium"

---------------------------------------------------------------------------
(* The scenario of the keyword pass: the query "database used project"     *)
(* against the chunk "PostgreSQL database is used in this project", at     *)
(* scores up to 1.0.                                                       *)

\* Similarity scores of the scenario: the ends of the range, and scores just
\* below 1.0, where the rounding to four decimals matters.
ScenarioScores == {-1000000, 0, 500000, 999899, 999900, 999920, 1000000}

InitScenario ==
    /\ items = <<>>
    /\ queryEmbedding = <<>>
    /\ query = "database used project"
    /\ results \in CandidateListsFrom(SubSeq(Chunks, 1, 2), ScenarioScores)
    /\ ranked = <<>>
    /\ call = Idle
    /\ ret = NoReturn
    /\ NoAsync

NextScenario == \/ RerankResults

SpecScenario == InitScenario /\ [][NextScenario]_vars

\* The text after "Naydeno " in boost_reason, up to the next space: the match
\* count the reason reports.
ReportedMatches(boost_reason) ==
    IF Len(boost_reason) < 9 THEN ""
    ELSE SubSeq(boost_reason, 9,
                CHOOSE e \in 9..Len(boost_reason) :
                    /\ CharAt(boost_reason, e + 1) = " "
                    /\ \A k \in 9..e : CharAt(boost_reason, k) # " ")

\* The scenario chunk's results of the keyword pass, for scores below a limit:
\* the overlap is nonzero, rerank_score is above score, and boost_reason
\* reports at least 3 matches.
ScenarioBoosted(limit) ==
    Reranked({"keyword-boost"}) =>
        \A i \in 1..Len(ret.value) :
            (ret.value[i].text = TextScenario /\ ret.value[i].score < limit) =>
                /\ OverlapCount(ret.value[i].text) > 0
                /\ ret.value[i].rerank_score > ret.value[i].score
                /\ ReportedMatches(ret.value[i].boost_reason) # ""
                /\ NatOfString(ReportedMatches(ret.value[i].boost_reason)) >= 3

\* C24 as claimed: for every original score below 1.0 the scenario chunk has a
\* nonzero overlap, a rerank_score strictly greater than the score, and a
\* boost_reason that reports at least 3 matches.
C24_ScenarioBoostedBelowOne == ScenarioBoosted(1000000)

\* C24 as amended: the same for every original score below 0.9999; from there
\* on 0.7 * score + 0.3 rounded to four decimals need not exceed the score.
C24_ScenarioBoostedBelow9999 == ScenarioBoosted(999900)

\* C24 witness: at the score 0.999899 the scenario chunk is boosted to 0.9999
\* with three matches reported.
C24_Witness ==
    /\ Reranked({"keyword-boost"})
    /\ Len(ret.value) = 1
    /\ ret.value[1].text = TextScenario
    /\ ret.value[1].score = 999899
    /\ ret.value[1].rerank_score = 999900
    /\ ret.value[1].boost_reason = "Naydeno 3 klucevyh slov"

===========================================================================
